---- MODULE Spec2Model ----
(***************************************************************************)
(* A model of runecho's IR core (internal/ir, internal/parser): the        *)
(* directory walk with its ignore-set and extension filter, the content    *)
(* hasher and root hash, the path normaliser, the regex-based symbol       *)
(* extractor and the JSON form, as a state machine over a small file       *)
(* system on which a caller runs Generate and Update.                      *)
(*                                                                         *)
(* Go strings and byte slices are sequences of bytes (0..255).  Str(s)     *)
(* turns a TLA+ string literal into that sequence.                         *)
(***************************************************************************)
EXTENDS Integers, Sequences, FiniteSets, TLC

VARIABLES
    fs,            \* the file system: absolute component path -> node
    ops,           \* number of file-system changes made so far
    generator,     \* the Generator the caller built: [parser, ignoredPaths]
    last,          \* outcome of the latest Generate/Update call (or NoCall)
    prev           \* outcome of the call before it (or NoCall)

vars == <<fs, ops, generator, last, prev>>

----------------------------------------------------------------------------
(* Bytes and strings *)

\* The printable ASCII characters in code order: 32 (space) to 95 (_), and
\* 97 (a) to 126 (~).
AsciiLow == " !\"#$%&'()*+,-./0123456789:;<=>?@ABCDEFGHIJKLMNOPQRSTUVWXYZ[\\]^_"
AsciiHigh == "abcdefghijklmnopqrstuvwxyz{|}~"

\* The byte of a one-character literal.
Byte(c) ==
    IF c = "\n" THEN 10
    ELSE IF \E k \in 1..Len(AsciiLow) : SubSeq(AsciiLow, k, k) = c
         THEN 31 + (CHOOSE k \in 1..Len(AsciiLow) : SubSeq(AsciiLow, k, k) = c)
         ELSE 96 + (CHOOSE k \in 1..Len(AsciiHigh) : SubSeq(AsciiHigh, k, k) = c)

\* The byte sequence of a string literal.
Str(s) == [i \in 1..Len(s) |-> Byte(SubSeq(s, i, i))]

\* Go's s < t on strings: lexicographic order of the bytes.
StrLess(s, t) ==
    \E k \in 1..Len(t) :
        /\ \A j \in 1..(k - 1) : j <= Len(s) /\ s[j] = t[j]
        /\ k > Len(s) \/ s[k] < t[k]

\* strings.HasPrefix
HasPrefix(s, p) == Len(s) >= Len(p) /\ SubSeq(s, 1, Len(p)) = p

\* strings.TrimPrefix
TrimPrefix(s, p) == IF HasPrefix(s, p) THEN SubSeq(s, Len(p) + 1, Len(s)) ELSE s

\* strings.Index(s, sub): the first index (from 1) where sub occurs, 0 if none.
Index(s, sub) ==
    LET First(hits) == IF hits = {} THEN 0 ELSE CHOOSE i \in hits : \A j \in hits : i <= j
    IN  First({i \in 1..(Len(s) - Len(sub) + 1) : SubSeq(s, i, i + Len(sub) - 1) = sub})

\* Insertion of x into an ascending sequence of strings.
RECURSIVE InsertSorted(_, _)
InsertSorted(x, seq) ==
    IF seq = <<>> THEN <<x>>
    ELSE IF StrLess(x, Head(seq)) THEN <<x>> \o seq
    ELSE <<Head(seq)>> \o InsertSorted(x, Tail(seq))

\* sort.Strings: the elements of seq in ascending order (duplicates kept).
RECURSIVE SortStrings(_)
SortStrings(seq) ==
    IF seq = <<>> THEN <<>>
    ELSE InsertSorted(Head(seq), SortStrings(Tail(seq)))

\* The concatenation of a sequence of strings.
RECURSIVE Flatten(_)
Flatten(seqs) ==
    IF Len(seqs) = 0 THEN <<>>
    ELSE IF Len(seqs) = 1 THEN seqs[1]
    ELSE LET half == Len(seqs) \div 2
         IN  Flatten(SubSeq(seqs, 1, half)) \o Flatten(SubSeq(seqs, half + 1, Len(seqs)))

\* strings.Split(s, sep) for a one-byte separator.
RECURSIVE SplitByte(_, _)
SplitByte(s, sep) ==
    LET At(i) == <<SubSeq(s, 1, i - 1)>> \o SplitByte(SubSeq(s, i + 1, Len(s)), sep)
        Among(hits) ==
            IF hits = {} THEN <<s>> ELSE At(CHOOSE k \in hits : \A j \in hits : k <= j)
    IN  Among({i \in 1..Len(s) : s[i] = sep})

\* strings.Join(parts, sep)
RECURSIVE JoinStrings(_, _)
JoinStrings(parts, sep) ==
    IF parts = <<>> THEN <<>>
    ELSE IF Len(parts) = 1 THEN parts[1]
    ELSE parts[1] \o sep \o JoinStrings(Tail(parts), sep)

\* All orders in which the elements of a finite set can be enumerated
\* (the orders Go's range over a map may produce).
RECURSIVE Orders(_)
Orders(S) ==
    IF S = {} THEN {<<>>}
    ELSE UNION {{<<x>> \o o : o \in Orders(S \ {x})} : x \in S}

----------------------------------------------------------------------------
(* path/filepath on a Unix build: the separator is '/' *)

Separator == Str("/")
Slash == Str("/")
DotSlash == Str("./")
Dot == Str(".")
DotDot == Str("..")

\* filepath.IsAbs
IsAbs(path) == HasPrefix(path, Separator)

\* The non-empty elements of a path, in order.
Elements(path) == SelectSeq(SplitByte(path, Separator[1]), LAMBDA e : e # <<>>)

\* The element stack of filepath.Clean: "." dropped, ".." removes the element
\* before it (at the root it is dropped, in a relative path it is kept).
RECURSIVE CleanElements(_, _, _)
CleanElements(elems, rooted, out) ==
    LET Step(e) ==
            IF e = Dot THEN out
            ELSE IF e = DotDot
                 THEN IF out # <<>> /\ out[Len(out)] # DotDot
                           THEN SubSeq(out, 1, Len(out) - 1)
                      ELSE IF rooted THEN out
                      ELSE Append(out, e)
            ELSE Append(out, e)
    IN  IF elems = <<>> THEN out
        ELSE CleanElements(Tail(elems), rooted, Step(Head(elems)))

\* filepath.Clean
Clean(path) ==
    LET Rooted(body) == Separator \o body
        Relative(body) == IF body = <<>> THEN Dot ELSE body
    IN  IF IsAbs(path)
        THEN Rooted(JoinStrings(CleanElements(Elements(path), TRUE, <<>>), Separator))
        ELSE Relative(JoinStrings(CleanElements(Elements(path), FALSE, <<>>), Separator))

\* filepath.Join: the non-empty arguments joined by the separator, cleaned.
Join(a, b) ==
    IF a = <<>> /\ b = <<>> THEN <<>>
    ELSE Clean(JoinStrings(SelectSeq(<<a, b>>, LAMBDA e : e # <<>>), Separator))

\* os.Getwd: the working directory of the process.
Getwd == Str("/w")

\* filepath.Abs
Abs(path) == IF IsAbs(path) THEN Clean(path) ELSE Join(Getwd, path)

\* filepath.Base: the last element; "." for the empty path, "/" for the root.
Base(path) ==
    LET Last(elems) == IF elems = <<>> THEN Separator ELSE elems[Len(elems)]
    IN  IF path = <<>> THEN Dot ELSE Last(Elements(path))

\* filepath.Ext: the suffix from the last '.' of the last element, "" if none.
Ext(path) ==
    LET From(dots) ==
            IF dots = {} THEN <<>>
            ELSE SubSeq(path, CHOOSE i \in dots : \A j \in dots : j <= i, Len(path))
    IN  From({i \in 1..Len(path) :
                 /\ path[i] = Dot[1]
                 /\ \A j \in i..Len(path) : path[j] # Separator[1]})

\* The length of the longest common prefix of two element sequences.
RECURSIVE CommonLen(_, _)
CommonLen(a, b) ==
    IF a = <<>> \/ b = <<>> \/ Head(a) # Head(b) THEN 0
    ELSE 1 + CommonLen(Tail(a), Tail(b))

\* filepath.Rel(basepath, targpath): err is TRUE when one path is absolute
\* and the other is not, or when basepath has ".." elements left to climb.
Rel(basepath, targpath) ==
    LET Found(rel) == [err |-> FALSE, path |-> IF rel = <<>> THEN Dot ELSE rel]
        Climb(be, te, k) ==
            IF \E i \in (k + 1)..Len(be) : be[i] = DotDot THEN [err |-> TRUE, path |-> <<>>]
            ELSE Found(JoinStrings([i \in 1..(Len(be) - k) |-> DotDot]
                                       \o SubSeq(te, k + 1, Len(te)), Separator))
        Compare(be, te) == Climb(be, te, CommonLen(be, te))
        Relate(base, targ) ==
            IF targ = base THEN [err |-> FALSE, path |-> Dot]
            ELSE IF IsAbs(base) # IsAbs(targ)
                 THEN [err |-> TRUE, path |-> <<>>]
            ELSE Compare(Elements(IF base = Dot THEN <<>> ELSE base),
                         Elements(IF targ = Dot THEN <<>> ELSE targ))
    IN  Relate(Clean(basepath), Clean(targpath))

\* filepath.ToSlash: every separator becomes '/'.
\* filepath.ToSlash where the separator is the backslash.
Backslash == Str("\\")
ToSlashWindows(path) == [i \in 1..Len(path) |-> IF path[i] = Backslash[1] THEN Slash[1] ELSE path[i]]

ToSlash(path) == [i \in 1..Len(path) |-> IF path[i] = Separator[1] THEN Slash[1] ELSE path[i]]

----------------------------------------------------------------------------
(* golang.org/x/text/unicode/norm, on UTF-8 bytes *)

\* The canonical compositions the model's names can contain, as
\* <<decomposed, composed>>: e + U+0301 (65 CC 81) composes to U+00E9 (C3 A9).
Compositions == {<<(<<101, 204, 129>>), (<<195, 169>>)>>}

\* norm.NFC.String
RECURSIVE NFC(_)
NFC(s) ==
    LET Compose(c) == c[2] \o NFC(SubSeq(s, Len(c[1]) + 1, Len(s)))
        Among(hit) ==
            IF hit = {} THEN <<Head(s)>> \o NFC(Tail(s))
            ELSE Compose(CHOOSE x \in hit : TRUE)
    IN  IF s = <<>> THEN <<>>
        ELSE Among({c \in Compositions : HasPrefix(s, c[1])})

\* normalizePath without the Unicode normalization.
normalizePathRaw(relPath) == TrimPrefix(ToSlash(relPath), DotSlash)

\* normalizePath (generator.go)
normalizePath(relPath) == NFC(TrimPrefix(ToSlash(relPath), DotSlash))

----------------------------------------------------------------------------------------------------------------------------------------
(* Go's regexp, as far as the parser's patterns use it.                     *)
(* A pattern is a tree: <<"lit", bytes>>, <<"set", S>> (one byte of S),    *)
(* <<"seq", patterns>>, <<"alt", patterns>> (earlier alternatives          *)
(* preferred), <<"opt", p>>, the repetitions of a byte set <<"star", S>>   *)
(* and <<"plus", S>> (greedy) and <<"lazy", S>> ([S]*?), <<"bot">> (^      *)
(* without the m flag: the beginning of the text) and <<"cap", p>> (a      *)
(* capturing group).                                                       *)

AnyByte == 0..255
SpaceBytes == {9, 10, 12, 13, 32}                                 \* \s
WordBytes == (48..57) \cup (65..90) \cup (97..122) \cup {95}      \* \w
BytesOf(s) == {Str(s)[i] : i \in 1..Len(s)}

Lit(s) == <<"lit", Str(s)>>
Set(S) == <<"set", S>>
Cat(ps) == <<"seq", ps>>
Alt(ps) == <<"alt", ps>>
Opt(q) == <<"opt", q>>
Star(S) == <<"star", S>>
Plus(S) == <<"plus", S>>
Lazy(S) == <<"lazy", S>>
Cap(q) == <<"cap", q>>
Bot == <<"bot">>

\* The number of consecutive bytes of S in s from position i on.
RunLen(s, i, S) ==
    CHOOSE k \in 0..(Len(s) - i + 1) :
        /\ \A j \in 0..(k - 1) : s[i + j] \in S
        /\ k = Len(s) - i + 1 \/ s[i + k] \notin S

\* The matches of pattern p in s that begin at position i, most preferred
\* first (the order in which a backtracking matcher tries them, which is
\* the leftmost-first order of Go's regexp).  A match is [end |-> position
\* after its last byte, caps |-> the texts of the capturing groups].
RECURSIVE Matches(_, _, _)
\* For every match m in ms, in order: m followed by a match of p.
MatchesAfter(ms, p, s) ==
    LET Extend(m, next) ==
            [k \in 1..Len(next) |-> [end |-> next[k].end, caps |-> m.caps \o next[k].caps]]
    IN  Flatten([n \in 1..Len(ms) |-> Extend(ms[n], Matches(p, s, ms[n].end))])
Matches(p, s, i) ==
    LET At(e) == [end |-> e, caps |-> <<>>]
        kind == p[1]
        \* A greedy repetition over a run of bytes: the longest first, down
        \* to least repetitions.
        Longest(run, least) == [k \in 1..(run + 1 - least) |-> At(i + run + 1 - k)]
        \* A lazy repetition: the shortest first.
        Shortest(run) == [k \in 1..(run + 1) |-> At(i + k - 1)]
        \* The matches of a group, with the group's text before their captures.
        Captured(inner) ==
            [k \in 1..Len(inner) |->
                [end |-> inner[k].end,
                 caps |-> <<SubSeq(s, i, inner[k].end - 1)>> \o inner[k].caps]]
    IN  CASE kind = "lit" ->
                IF i + Len(p[2]) - 1 <= Len(s) /\ SubSeq(s, i, i + Len(p[2]) - 1) = p[2]
                THEN <<At(i + Len(p[2]))>> ELSE <<>>
          [] kind = "set" ->
                IF i <= Len(s) /\ s[i] \in p[2] THEN <<At(i + 1)>> ELSE <<>>
          [] kind = "bot" ->
                IF i = 1 THEN <<At(i)>> ELSE <<>>
          [] kind = "seq" ->
                IF p[2] = <<>> THEN <<At(i)>>
                ELSE MatchesAfter(Matches(Head(p[2]), s, i), <<"seq", Tail(p[2])>>, s)
          [] kind = "alt" ->
                Flatten([n \in 1..Len(p[2]) |-> Matches(p[2][n], s, i)])
          [] kind = "opt" ->
                Matches(p[2], s, i) \o <<At(i)>>
          [] kind = "star" -> Longest(RunLen(s, i, p[2]), 0)
          [] kind = "plus" -> Longest(RunLen(s, i, p[2]), 1)
          [] kind = "lazy" -> Shortest(RunLen(s, i, p[2]))
          [] kind = "cap" -> Captured(Matches(p[2], s, i))

\* Regexp.FindAllStringSubmatch(s, -1) from position i on: the successive
\* non-overlapping leftmost matches, each as [from, end, caps].
RECURSIVE FindAllFrom(_, _, _)
FindAllFrom(p, s, i) ==
    LET Found(j, m) ==
            <<[from |-> j, end |-> m.end, caps |-> m.caps]>>
            \o FindAllFrom(p, s, IF m.end > j THEN m.end ELSE j + 1)
        Leftmost(j) == Found(j, Head(Matches(p, s, j)))
        Among(starts) ==
            IF starts = {} THEN <<>>
            ELSE Leftmost(CHOOSE x \in starts : \A y \in starts : x <= y)
    IN  Among({j \in i..(Len(s) + 1) : Matches(p, s, j) # <<>>})

FindAllStringSubmatch(p, s) == FindAllFrom(p, s, 1)

\* Regexp.ReplaceAllString(s, ""): s without the matches of p.
RECURSIVE CutMatches(_, _, _)
CutMatches(s, ms, i) ==
    IF ms = <<>> THEN SubSeq(s, i, Len(s))
    ELSE SubSeq(s, i, Head(ms).from - 1) \o CutMatches(s, Tail(ms), Head(ms).end)

ReplaceAllEmpty(p, s) == CutMatches(s, FindAllStringSubmatch(p, s), 1)

----------------------------------------------------------------------------
(* internal/parser: JSParser *)

Quote == Set(BytesOf("'\""))
NotQuote == AnyByte \ BytesOf("'\"")
AsyncOpt == Opt(Cat(<<Lit("async"), Plus(SpaceBytes)>>))
Binder == Alt(<<Lit("const"), Lit("let"), Lit("var")>>)

Newline == Str("\n")
LineComment == Str("//")
Comma == Str(",")
AsKeyword == Str(" as ")

\* import\s+(?:[\w\s{},*]*\s+from\s+)?['"]([^'"]+)['"]
importESMRegex ==
    Cat(<<Lit("import"), Plus(SpaceBytes),
          Opt(Cat(<<Star(WordBytes \cup SpaceBytes \cup BytesOf("{},*")),
                    Plus(SpaceBytes), Lit("from"), Plus(SpaceBytes)>>)),
          Quote, Cap(Plus(NotQuote)), Quote>>)

\* require\s*\(\s*['"]([^'"]+)['"]\s*\)
importCJSRegex ==
    Cat(<<Lit("require"), Star(SpaceBytes), Lit("("), Star(SpaceBytes),
          Quote, Cap(Plus(NotQuote)), Quote, Star(SpaceBytes), Lit(")")>>)

\* (?:^|\s)(?:async\s+)?function\s+(\w+)\s*\(
funcDeclRegex ==
    Cat(<<Alt(<<Bot, Set(SpaceBytes)>>), AsyncOpt, Lit("function"), Plus(SpaceBytes),
          Cap(Plus(WordBytes)), Star(SpaceBytes), Lit("(")>>)

\* (?:const|let|var)\s+(\w+)\s*=\s*(?:async\s+)?function\s*\(
funcExprRegex ==
    Cat(<<Binder, Plus(SpaceBytes), Cap(Plus(WordBytes)), Star(SpaceBytes), Lit("="), Star(SpaceBytes),
          AsyncOpt, Lit("function"), Star(SpaceBytes), Lit("(")>>)

\* (?:const|let|var)\s+(\w+)\s*=\s*(?:async\s+)?(?:\([^)]*\)|[\w]+)\s*=>
arrowFuncRegex ==
    Cat(<<Binder, Plus(SpaceBytes), Cap(Plus(WordBytes)), Star(SpaceBytes), Lit("="), Star(SpaceBytes), AsyncOpt,
          Alt(<<Cat(<<Lit("("), Star(AnyByte \ BytesOf(")")), Lit(")")>>), Plus(WordBytes)>>),
          Star(SpaceBytes), Lit("=>")>>)

\* (?:^|\s)(?:export\s+(?:default\s+)?)?class\s+(\w+)
classDeclRegex ==
    Cat(<<Alt(<<Bot, Set(SpaceBytes)>>),
          Opt(Cat(<<Lit("export"), Plus(SpaceBytes), Opt(Cat(<<Lit("default"), Plus(SpaceBytes)>>))>>)),
          Lit("class"), Plus(SpaceBytes), Cap(Plus(WordBytes))>>)

\* export\s+\{([^}]+)\}
exportNamedRegex ==
    Cat(<<Lit("export"), Plus(SpaceBytes), Lit("{"),
          Cap(Plus(AnyByte \ BytesOf("}"))), Lit("}")>>)

\* export\s+(?:const|let|var|function|class|async\s+function)\s+(\w+)
exportDeclRegex ==
    Cat(<<Lit("export"), Plus(SpaceBytes),
          Alt(<<Lit("const"), Lit("let"), Lit("var"), Lit("function"), Lit("class"),
                Cat(<<Lit("async"), Plus(SpaceBytes), Lit("function")>>)>>),
          Plus(SpaceBytes), Cap(Plus(WordBytes))>>)

\* export\s+default\s+(\w+)
exportDefaultRegex ==
    Cat(<<Lit("export"), Plus(SpaceBytes), Lit("default"), Plus(SpaceBytes), Cap(Plus(WordBytes))>>)

\* /\*[\s\S]*?\*/
multiLineRegex == Cat(<<Lit("/*"), Lazy(AnyByte), Lit("*/")>>)

\* The supported extensions of JSParser.SupportsExtension.
SupportedExtensions == {Str(".js"), Str(".ts"), Str(".gs")}

\* An extension that begins with a supported one.
SupportsExtensionPrefix(ext) == \E e \in SupportedExtensions : HasPrefix(ext, e)

\* JSParser.SupportsExtension
SupportsExtension(ext) == ext \in SupportedExtensions

\* The first capturing group of every match (match[1]), in match order.
Captures(p, source) ==
    LET First(ms) == [k \in 1..Len(ms) |-> ms[k].caps[1]]
    IN  First(FindAllStringSubmatch(p, source))

\* The body of removeComments' loop: the line up to its first "//".
StripLineComment(line) ==
    LET Cut(idx) == IF idx > 0 THEN SubSeq(line, 1, idx - 1) ELSE line
    IN  Cut(Index(line, LineComment))

\* removeComments
removeComments(source) ==
    LET Cleaned(lines) ==
            JoinStrings([k \in 1..Len(lines) |-> StripLineComment(lines[k])], Newline)
    IN  Cleaned(SplitByte(ReplaceAllEmpty(multiLineRegex, source), Newline[1]))

\* extractImports
extractImports(source) == Captures(importESMRegex, source) \o Captures(importCJSRegex, source)

\* extractFunctions
extractFunctions(source) ==
    Captures(funcDeclRegex, source) \o Captures(funcExprRegex, source)
        \o Captures(arrowFuncRegex, source)

\* extractClasses
extractClasses(source) == Captures(classDeclRegex, source)

\* strings.TrimSpace
RECURSIVE TrimSpace(_)
TrimSpace(s) ==
    IF s = <<>> THEN s
    ELSE IF Head(s) \in SpaceBytes \cup {11} THEN TrimSpace(Tail(s))
    ELSE IF s[Len(s)] \in SpaceBytes \cup {11} THEN TrimSpace(SubSeq(s, 1, Len(s) - 1))
    ELSE s

\* The name an element of an export list contributes: the text before " as ".
ExportedName(item) ==
    LET Before(name, idx) == IF idx > 0 THEN TrimSpace(SubSeq(name, 1, idx - 1)) ELSE name
        Named(name) == Before(name, Index(name, AsKeyword))
    IN  Named(TrimSpace(item))

\* The names of one export list: export { a, b as c }.
NamedExports(list) ==
    LET Names(items) ==
            SelectSeq([k \in 1..Len(items) |-> ExportedName(items[k])], LAMBDA n : n # <<>>)
    IN  Names(SplitByte(list, Comma[1]))

\* extractExports
extractExports(source) ==
    LET Named(lists) == Flatten([k \in 1..Len(lists) |-> NamedExports(lists[k])])
    IN  Named(Captures(exportNamedRegex, source))
            \o Captures(exportDeclRegex, source)
            \o Captures(exportDefaultRegex, source)

\* deduplicate: the elements of a sorted slice that differ from the one before.
RECURSIVE DedupFrom(_, _)
DedupFrom(sorted, i) ==
    IF i > Len(sorted) THEN <<>>
    ELSE (IF sorted[i] # sorted[i - 1] THEN <<sorted[i]>> ELSE <<>>) \o DedupFrom(sorted, i + 1)

deduplicate(sorted) ==
    IF Len(sorted) = 0 THEN sorted ELSE <<sorted[1]>> \o DedupFrom(sorted, 2)

\* JSParser.Parse with the two passes exchanged: deduplicate, then sort.
ParseDedupFirst(source) ==
    LET Extract(text) ==
            [Imports   |-> SortStrings(deduplicate(extractImports(text))),
             Functions |-> SortStrings(deduplicate(extractFunctions(text))),
             Classes   |-> SortStrings(deduplicate(extractClasses(text))),
             Exports   |-> SortStrings(deduplicate(extractExports(text)))]
    IN  Extract(removeComments(source))

\* JSParser.Parse: the four lists, each sorted and deduplicated (err is nil).
Parse(source) ==
    LET Extract(text) ==
            [Imports   |-> deduplicate(SortStrings(extractImports(text))),
             Functions |-> deduplicate(SortStrings(extractFunctions(text))),
             Classes   |-> deduplicate(SortStrings(extractClasses(text))),
             Exports   |-> deduplicate(SortStrings(extractExports(text)))]
    IN  Extract(removeComments(source))

\* The source texts the files of the model hold.
SrcA == Str("function f(){}")
SrcB == Str("export class B{}")
SrcC == Str("const g=()=>1 // function f(){}")
SrcU == Str("import 'x") \o <<255>> \o Str("'")
Sources == {SrcA, SrcB, SrcC, SrcU}

\* NewJSParser: the parser as a value, its Parse method tabulated on the
\* model's source texts.
NewJSParser == [source \in Sources |-> Parse(source)]

----------------------------------------------------------------------------
(* internal/ir: hasher *)

HexDigits == Str("0123456789abcdef")

\* fmt.Sprintf("%x", b): two lowercase hex digits per byte.
Hex(b) ==
    [i \in 1..(2 * Len(b)) |->
        IF i % 2 = 1 THEN HexDigits[(b[(i + 1) \div 2] \div 16) + 1]
        ELSE HexDigits[(b[i \div 2] % 16) + 1]]

\* sha256.Sum256, as a collision-free digest: distinct inputs have distinct
\* digests.  The digest of the model is the input itself, so that its hex
\* form is a string of hex digits that determines the input.
Sum256(data) == data

\* HashBytes
HashBytes(data) == Hex(Sum256(data))

----------------------------------------------------------------------------
(* The file system.  fs maps the element sequence of an absolute path to a  *)
(* node [kind, perm, data]: kind is "dir", "file" or "symlink"; perm is    *)
(* "rwx" (full access), "r--" (a directory that can be listed but not      *)
(* searched) or "---" (no access); data is the content of a file, or the   *)
(* path a symbolic link holds.                                             *)

Dir(perm) == [kind |-> "dir", perm |-> perm, data |-> <<>>]
File(perm, data) == [kind |-> "file", perm |-> perm, data |-> data]
Symlink(target) == [kind |-> "symlink", perm |-> "rwx", data |-> target]

\* The number of symbolic links the kernel follows in one path resolution
\* before it fails with ELOOP.
MaxSymlinks == 40

\* Path resolution of the kernel: the node the elements rest name, starting
\* at the directory done.  Every directory on the way must be searchable; a
\* symbolic link on the way is followed, and a symbolic link as the last
\* element is followed only when follow is set (stat, open) and not
\* otherwise (lstat).  err is TRUE when the path names nothing, cannot be
\* reached or holds too many links.
RECURSIVE Resolve(_, _, _, _, _)
Resolve(fsys, done, rest, follow, hops) ==
    LET Failed == [err |-> TRUE, elems |-> <<>>]
        Step(name, next, more) ==
            IF fsys[done].kind # "dir" \/ fsys[done].perm # "rwx" THEN Failed
            ELSE IF name = Dot THEN Resolve(fsys, done, more, follow, hops)
            ELSE IF name = DotDot
            THEN Resolve(fsys, SubSeq(done, 1, Len(done) - 1), more, follow, hops)
            ELSE IF next \notin DOMAIN fsys THEN Failed
            ELSE IF fsys[next].kind = "symlink" /\ (more # <<>> \/ follow)
            THEN IF hops = 0 THEN Failed
                 ELSE Resolve(fsys,
                              IF IsAbs(fsys[next].data) THEN <<>> ELSE done,
                              Elements(fsys[next].data) \o more, follow, hops - 1)
            ELSE Resolve(fsys, next, more, follow, hops)
    IN  IF rest = <<>> THEN [err |-> FALSE, elems |-> done]
        ELSE Step(Head(rest), Append(done, Head(rest)), Tail(rest))

\* The resolution of a path: an absolute path starts at the root directory,
\* any other at the working directory of the process.
WorkingDir == Elements(Getwd)
Lookup(fsys, path, follow) ==
    Resolve(fsys, IF IsAbs(path) THEN <<>> ELSE WorkingDir, Elements(path), follow, MaxSymlinks)

\* os.Stat: the node behind the path, every symbolic link followed.
Stat(fsys, path) ==
    LET At(r) ==
            IF r.err
            THEN [err |-> TRUE, isDir |-> FALSE, isSymlink |-> FALSE]
            ELSE [err |-> FALSE,
                  isDir |-> fsys[r.elems].kind = "dir",
                  isSymlink |-> FALSE]
    IN  At(Lookup(fsys, path, TRUE))

\* os.Lstat: err is TRUE when the path names nothing or cannot be reached.
\* The mode of a directory has ModeDir set; ModeSymlink is set for a
\* symbolic link only, which is reported as itself and never followed.
Lstat(fsys, path) ==
    LET At(r) ==
            IF r.err
            THEN [err |-> TRUE, isDir |-> FALSE, isSymlink |-> FALSE]
            ELSE [err |-> FALSE,
                  isDir |-> fsys[r.elems].kind = "dir",
                  isSymlink |-> fsys[r.elems].kind = "symlink"]
    IN  At(Lookup(fsys, path, FALSE))

\* The names of the entries of the directory at elems.
EntryNames(fsys, elems) ==
    {q[Len(q)] : q \in {r \in DOMAIN fsys : Len(r) = Len(elems) + 1
                                           /\ SubSeq(r, 1, Len(elems)) = elems}}

\* The strings of a finite set in ascending order.
RECURSIVE Ascending(_)
Ascending(S) ==
    LET With(x) == InsertSorted(x, Ascending(S \ {x}))
    IN  IF S = {} THEN <<>>
        ELSE With(CHOOSE x \in S : TRUE)

\* readDirNames (path/filepath): the sorted names of the directory's entries.
readDirNames(fsys, path) ==
    LET At(r) ==
            IF \/ r.err
               \/ fsys[r.elems].kind # "dir"
               \/ fsys[r.elems].perm = "---"
            THEN [err |-> TRUE, names |-> <<>>]
            ELSE [err |-> FALSE, names |-> Ascending(EntryNames(fsys, r.elems))]
    IN  At(Lookup(fsys, path, TRUE))

\* os.ReadFile: the whole content of a readable file.
ReadFile(fsys, path) ==
    LET At(r) ==
            IF \/ r.err
               \/ fsys[r.elems].kind # "file"
               \/ fsys[r.elems].perm = "---"
            THEN [err |-> TRUE, data |-> <<>>]
            ELSE [err |-> FALSE, data |-> fsys[r.elems].data]
    IN  At(Lookup(fsys, path, TRUE))

\* HashFile: os.Open, io.Copy into SHA-256, lowercase hex.
HashFile(fsys, path) ==
    LET Digest(f) ==
            IF f.err THEN [err |-> TRUE, hash |-> <<>>]
            ELSE [err |-> FALSE, hash |-> Hex(Sum256(f.data))]
    IN  Digest(ReadFile(fsys, path))

----------------------------------------------------------------------------
(* internal/ir: IR, FileIR and the root hash *)

\* The empty map[string]FileIR.
NoFiles == <<>>

\* files[key] = file
Put(files, key, file) ==
    [k \in (DOMAIN files) \cup {key} |-> IF k = key THEN file ELSE files[k]]

Colon == Str(":")

\* The "path:hash" lines, each one ended by '\n'.
RootLinesTerminated(files, paths) ==
    Flatten([i \in 1..Len(paths) |-> paths[i] \o Colon \o files[paths[i]].Hash \o Newline])

\* The paths alone, joined by '\n'.
RootLinesOfPaths(files, paths) == JoinStrings(paths, Newline)

\* The loop of ComputeRootHash: the "path:hash" lines joined by '\n'.
RootLines(files, paths) ==
    JoinStrings([i \in 1..Len(paths) |-> paths[i] \o Colon \o files[paths[i]].Hash],
                Newline)

\* A root hash over the keys in the order the map yields them, without
\* the sort.
ComputeRootHashUnsorted(files, iter) ==
    IF Len(iter) = 0 THEN HashBytes(<<>>)
    ELSE HashBytes(RootLines(files, iter))

\* ComputeRootHash.  iter is the order in which range yields the keys of
\* the map.
ComputeRootHash(files, iter) ==
    IF Len(iter) = 0 THEN HashBytes(<<>>)
    ELSE HashBytes(RootLines(files, SortStrings(iter)))

----------------------------------------------------------------------------
(* internal/ir: the JSON form (encoding/json as MarshalJSON uses it) *)

\* The literal texts of the encoder.
JSONText ==
    [quoteMark |-> Str("\""),
     escQuote |-> Str("\\\""),
     escBackslash |-> Str("\\\\"),
     escN |-> Str("\\n"),
     escR |-> Str("\\r"),
     escT |-> Str("\\t"),
     escU00 |-> Str("\\u00"),
     escInvalid |-> Str("\\ufffd"),
     comma1 |-> Str(","),
     memberSep |-> Str(": "),
     openBrace |-> Str("{"),
     closeBrace |-> Str("}"),
     openBracket |-> Str("["),
     closeBracket |-> Str("]"),
     emptyArray |-> Str("[]"),
     emptyObject |-> Str("{}"),
     indentUnit |-> Str("  "),
     keyVersion |-> Str("\"version\""),
     keyRootHash |-> Str("\"root_hash\""),
     keyFiles |-> Str("\"files\""),
     keyHash |-> Str("\"hash\""),
     keyImports |-> Str("\"imports\""),
     keyFunctions |-> Str("\"functions\""),
     keyClasses |-> Str("\"classes\""),
     keyExports |-> Str("\"exports\""),
     digits |-> Str("0123456789"),
     minus |-> Str("-"),
     null |-> Str("null"),
     true |-> Str("true"),
     false |-> Str("false"),
     escU202 |-> Str("\\u202"),
     replacement |-> <<239, 191, 189>>,
     version |-> Str("version"),
     root_hash |-> Str("root_hash"),
     files |-> Str("files"),
     hash |-> Str("hash"),
     imports |-> Str("imports"),
     functions |-> Str("functions"),
     classes |-> Str("classes"),
     exports |-> Str("exports")]

\* The bytes escaped for HTML safety.
HtmlBytes == BytesOf("<>&")

\* strconv.Itoa
RECURSIVE Itoa(_)
Itoa(n) ==
    IF n < 0 THEN JSONText.minus \o Itoa(0 - n)
    ELSE IF n < 10 THEN <<JSONText.digits[n + 1]>>
    ELSE Itoa(n \div 10) \o <<JSONText.digits[(n % 10) + 1]>>

\* utf8.DecodeRune: the number of bytes of the well-formed UTF-8 character
\* that begins at position i of s, 0 when none begins there.
RuneLen(s, i) ==
    LET b == s[i]
        cont(j) == j <= Len(s) /\ s[j] >= 128 /\ s[j] <= 191
    IN  IF b < 128 THEN 1
        ELSE IF b >= 194 /\ b <= 223 /\ cont(i + 1) THEN 2
        ELSE IF /\ b >= 224 /\ b <= 239 /\ cont(i + 1) /\ cont(i + 2)
                /\ b = 224 => s[i + 1] >= 160
                /\ b = 237 => s[i + 1] <= 159
        THEN 3
        ELSE IF /\ b >= 240 /\ b <= 244 /\ cont(i + 1) /\ cont(i + 2) /\ cont(i + 3)
                /\ b = 240 => s[i + 1] >= 144
                /\ b = 244 => s[i + 1] <= 143
        THEN 4
        ELSE 0

\* The bytes the encoder writes for the byte at position i of s, <<>> for
\* a later byte of a character that an earlier position wrote.  The
\* encoder escapes the quote, the backslash, control characters and, as
\* MarshalIndent keeps HTML escaping on, '<', '>' and '&' and the line
\* separators U+2028 and U+2029; a byte that does not belong to a
\* well-formed character becomes U+FFFD.
EncodeAt(s, i) ==
    LET b == s[i]
        Covered == \E j \in 1..3 : i - j >= 1 /\ s[i - j] >= 128 /\ RuneLen(s, i - j) > j
        Rune(n) ==
            IF n = 0 THEN (IF Covered THEN <<>> ELSE JSONText.escInvalid)
            ELSE IF n = 3 /\ b = 226 /\ s[i + 1] = 128 /\ s[i + 2] \in {168, 169}
            THEN JSONText.escU202 \o <<s[i + 2] - 112>>
            ELSE SubSeq(s, i, i + n - 1)
    IN  CASE b = 34 -> JSONText.escQuote
          [] b = 92 -> JSONText.escBackslash
          [] b = 10 -> JSONText.escN
          [] b = 13 -> JSONText.escR
          [] b = 9 -> JSONText.escT
          [] b < 32 \/ b \in HtmlBytes -> JSONText.escU00 \o Hex(<<b>>)
          [] b >= 32 /\ b < 128 /\ b \notin HtmlBytes /\ b # 34 /\ b # 92 -> <<b>>
          [] OTHER -> Rune(RuneLen(s, i))

\* A Go string as a JSON string.
EncodeString(s) ==
    JSONText.quoteMark \o Flatten([i \in 1..Len(s) |-> EncodeAt(s, i)]) \o JSONText.quoteMark

\* The line break and indentation MarshalIndent(v, "", "  ") writes at
\* nesting depth d.
NewlineIndent(d) == Newline \o Flatten([i \in 1..d |-> JSONText.indentUnit])

\* The items of a JSON array or the members of a JSON object at depth d,
\* between open and close; empty is what an array or object without
\* items is written as.
Block(open, close, empty, items, d) ==
    IF Len(items) = 0 THEN empty
    ELSE open
         \o Flatten([i \in 1..Len(items) |->
                (IF i > 1 THEN JSONText.comma1 ELSE <<>>) \o NewlineIndent(d + 1) \o items[i]])
         \o NewlineIndent(d) \o close

\* A nil slice of strings, the value of a list that was never assigned or
\* that was decoded from null: told apart from the empty list <<>>, it is
\* the one list that holds something no string is.
NilSlice == << <<-1>> >>

\* A []string field at depth d: null for a nil slice.
EncodeStrings(list, d) ==
    IF list = NilSlice THEN JSONText.null
    ELSE Block(JSONText.openBracket, JSONText.closeBracket, JSONText.emptyArray,
               [i \in 1..Len(list) |-> EncodeString(list[i])], d)

\* A FileIR at depth d: the fields in declaration order.
EncodeFileIR(file, d) ==
    Block(JSONText.openBrace, JSONText.closeBrace, JSONText.emptyObject,
          << JSONText.keyHash \o JSONText.memberSep \o EncodeString(file.Hash),
             JSONText.keyImports \o JSONText.memberSep \o EncodeStrings(file.Imports, d + 1),
             JSONText.keyFunctions \o JSONText.memberSep \o EncodeStrings(file.Functions, d + 1),
             JSONText.keyClasses \o JSONText.memberSep \o EncodeStrings(file.Classes, d + 1),
             JSONText.keyExports \o JSONText.memberSep \o EncodeStrings(file.Exports, d + 1) >>, d)

\* The entries of a map[string]FileIR at depth d as a JSON object, written
\* in the order of keys.
EncodeMembers(files, keys, d) ==
    Block(JSONText.openBrace, JSONText.closeBrace, JSONText.emptyObject,
          [i \in 1..Len(keys) |->
              EncodeString(keys[i]) \o JSONText.memberSep
              \o EncodeFileIR(files[keys[i]], d + 1)], d)

\* A map[string]FileIR at depth d, its keys written in the order the map
\* yields them in.
EncodeFilesUnsorted(files, keys, d) == EncodeMembers(files, keys, d)

\* A map[string]FileIR at depth d: encoding/json writes the keys in sorted
\* order, whatever order the map yields them in (keys).
EncodeFiles(files, keys, d) == EncodeMembers(files, SortStrings(keys), d)

\* IR.MarshalJSON.  iter is the order in which range yields the keys of
\* ir.Files; the method sorts them and copies the entries to a new map,
\* which MarshalIndent then encodes with version and root_hash before it.
MarshalJSON(ir, iter) ==
    LET Ordered(paths) == [k \in {paths[i] : i \in 1..Len(paths)} |-> ir.Files[k]]
    IN  Block(JSONText.openBrace, JSONText.closeBrace, JSONText.emptyObject,
              << JSONText.keyVersion \o JSONText.memberSep \o Itoa(ir.Version),
                 JSONText.keyRootHash \o JSONText.memberSep \o EncodeString(ir.RootHash),
                 JSONText.keyFiles \o JSONText.memberSep
                 \o EncodeFiles(Ordered(SortStrings(iter)), iter, 1) >>, 0)

----------------------------------------------------------------------------
(* encoding/json: compaction, and the decoder as UnmarshalJSON uses it.     *)
(* A JSON value is a record with the field t: [t |-> "obj", m |-> members]  *)
(* with the members [k |-> key, v |-> value] in document order,             *)
(* [t |-> "arr", a |-> items], [t |-> "str", s |-> bytes],                  *)
(* [t |-> "num", s |-> text], [t |-> "bool"] and [t |-> "null"].            *)

WhiteSpace == {9, 10, 13, 32}
DigitBytes == 48..57
TokenBytes == DigitBytes \cup (65..90) \cup (97..122) \cup {43, 45, 46}

\* The byte at position j of s follows an odd number of backslashes.
Escaped(s, j) ==
    LET Odd(n) == n % 2 = 1
    IN  Odd(CHOOSE n \in 0..(j - 1) :
                /\ \A k \in 1..n : s[j - k] = 92
                /\ n = j - 1 \/ s[j - n - 1] # 92)

\* The position of the quote that closes the string opened at position i,
\* 0 when the string is not closed.
StringClose(s, i) ==
    LET First(ends) == IF ends = {} THEN 0 ELSE CHOOSE j \in ends : \A k \in ends : j <= k
    IN  First({j \in (i + 1)..Len(s) : s[j] = 34 /\ ~Escaped(s, j)})

\* json.Compact, on valid JSON: the text without the white space between
\* its tokens.
Compact(s) ==
    LET Kept(quotes) ==
            SelectSeq([p \in 1..Len(s) |-> p],
                      LAMBDA p : \/ s[p] \notin WhiteSpace
                                 \/ \E k \in 1..(Len(quotes) \div 2) :
                                        quotes[2 * k - 1] < p /\ p < quotes[2 * k])
        Bytes(kept) == [k \in 1..Len(kept) |-> s[kept[k]]]
    IN  <<>> \o Bytes(Kept(SelectSeq([p \in 1..Len(s) |-> p],
                                     LAMBDA p : s[p] = 34 /\ ~Escaped(s, p))))

\* The value of a hexadecimal digit, -1 for any other byte.
HexVal(c) ==
    IF c \in DigitBytes THEN c - 48
    ELSE IF c \in 65..70 THEN c - 55
    ELSE IF c \in 97..102 THEN c - 87
    ELSE 0 - 1

\* The code unit of the escape \uXXXX whose backslash is at position p of
\* s, -1 when four hexadecimal digits do not follow.
CodeUnit(s, p, b) ==
    IF p + 5 > b \/ \E k \in 2..5 : HexVal(s[p + k]) < 0 THEN 0 - 1
    ELSE 4096 * HexVal(s[p + 2]) + 256 * HexVal(s[p + 3]) + 16 * HexVal(s[p + 4]) + HexVal(s[p + 5])

\* utf8.AppendRune
AppendRune(c) ==
    IF c < 128 THEN <<c>>
    ELSE IF c < 2048 THEN <<192 + (c \div 64), 128 + (c % 64)>>
    ELSE IF c < 65536 THEN <<224 + (c \div 4096), 128 + ((c \div 64) % 64), 128 + (c % 64)>>
    ELSE <<240 + (c \div 262144), 128 + ((c \div 4096) % 64), 128 + ((c \div 64) % 64), 128 + (c % 64)>>

\* unquote: the string between the quotes of a JSON string, the content at
\* positions a..b of s.  ok is FALSE for a control character and for an
\* escape that JSON does not have; a byte that belongs to no well-formed
\* character and a surrogate without its pair become U+FFFD.
RECURSIVE Unquote(_, _, _)
Unquote(s, a, b) ==
    LET Bad == [ok |-> FALSE, s |-> <<>>]
        Then(text, rest) == IF rest.ok THEN [ok |-> TRUE, s |-> text \o rest.s] ELSE Bad
        Simple(c) ==
            CASE c = 34 -> <<34>> [] c = 92 -> <<92>> [] c = 47 -> <<47>>
              [] c = 98 -> <<8>> [] c = 102 -> <<12>> [] c = 110 -> <<10>>
              [] c = 114 -> <<13>> [] c = 116 -> <<9>> [] OTHER -> <<>>
        Pair(p, hi, lo) ==
            IF hi >= 55296 /\ hi <= 56319 /\ lo >= 56320 /\ lo <= 57343
            THEN Then(SubSeq(s, a, p - 1) \o AppendRune(65536 + (hi - 55296) * 1024 + (lo - 56320)),
                      Unquote(s, p + 12, b))
            ELSE Then(SubSeq(s, a, p - 1) \o JSONText.replacement, Unquote(s, p + 6, b))
        Unit(p, u) ==
            IF u < 0 THEN Bad
            ELSE IF u >= 55296 /\ u <= 57343
            THEN Pair(p, u, IF p + 7 <= b /\ s[p + 6] = 92 /\ s[p + 7] = 117
                            THEN CodeUnit(s, p + 6, b) ELSE 0 - 1)
            ELSE Then(SubSeq(s, a, p - 1) \o AppendRune(u), Unquote(s, p + 6, b))
        Rune(p, n) ==
            IF n = 0 THEN Then(SubSeq(s, a, p - 1) \o JSONText.replacement, Unquote(s, p + 1, b))
            ELSE Then(SubSeq(s, a, p + n - 1), Unquote(s, p + n, b))
        At(p) ==
            IF p > b THEN [ok |-> TRUE, s |-> SubSeq(s, a, b)]
            ELSE IF s[p] < 32 THEN Bad
            ELSE IF s[p] >= 128 THEN Rune(p, RuneLen(s, p))
            ELSE IF p = b THEN Bad
            ELSE IF s[p + 1] = 117 THEN Unit(p, CodeUnit(s, p, b))
            ELSE IF Simple(s[p + 1]) = <<>> THEN Bad
            ELSE Then(SubSeq(s, a, p - 1) \o Simple(s[p + 1]), Unquote(s, p + 2, b))
        First(hits) == IF hits = {} THEN b + 1 ELSE CHOOSE p \in hits : \A q \in hits : p <= q
    IN  At(First({p \in a..b : s[p] < 32 \/ s[p] > 127 \/ s[p] = 92}))

\* -?(0|[1-9][0-9]*)(\.[0-9]+)?([eE][+-]?[0-9]+)?, the numbers of JSON.
NumberRegex ==
    Cat(<<Opt(Lit("-")),
          Alt(<<Cat(<<Set(49..57), Star(DigitBytes)>>), Lit("0")>>),
          Opt(Cat(<<Lit("."), Plus(DigitBytes)>>)),
          Opt(Cat(<<Set(BytesOf("eE")), Opt(Set(BytesOf("+-"))), Plus(DigitBytes)>>))>>)

\* The whole of text is a JSON number.
IsNumber(text) ==
    LET Whole(ms) == \E k \in 1..Len(ms) : ms[k].end = Len(text) + 1
    IN  Whole(Matches(NumberRegex, text, 1))

\* The result of the scanner at a value: the value and the position after
\* it, or ok = FALSE for a syntax error.
NoValue == [ok |-> FALSE, v |-> [t |-> "none"], next |-> 0]
Parsed(v, next) == [ok |-> TRUE, v |-> v, next |-> next]

\* The first position from i on that holds no white space.
SkipSpace(s, i) == IF i < 1 \/ i > Len(s) THEN i ELSE i + RunLen(s, i, WhiteSpace)

\* A JSON string that begins at position i of s.
ParseString(s, i) ==
    LET Quoted(u, e) ==
            IF u.ok THEN Parsed([t |-> "str", s |-> u.s], e + 1) ELSE NoValue
        Closed(e) == IF e = 0 THEN NoValue ELSE Quoted(Unquote(s, i + 1, e - 1), e)
    IN  Closed(StringClose(s, i))

\* null, true, false or a number that begins at position i of s.
ParseLiteral(s, i) ==
    LET Token(text) ==
            IF text = JSONText.null THEN Parsed([t |-> "null"], i + Len(text))
            ELSE IF text = JSONText.true \/ text = JSONText.false
            THEN Parsed([t |-> "bool"], i + Len(text))
            ELSE IF text # <<>> /\ IsNumber(text)
            THEN Parsed([t |-> "num", s |-> text], i + Len(text))
            ELSE NoValue
    IN  Token(SubSeq(s, i, i + RunLen(s, i, TokenBytes) - 1))

\* The JSON value that begins at position i of s, the members of an object
\* from position i on, and the items of an array from position i on.
RECURSIVE ParseValue(_, _)
RECURSIVE ParseMembers(_, _, _)
RECURSIVE ParseItems(_, _, _)
ParseValue(s, i) ==
    LET Object(j) ==
            IF j <= Len(s) /\ s[j] = 125 THEN Parsed([t |-> "obj", m |-> <<>>], j + 1)
            ELSE ParseMembers(s, j, <<>>)
        Array(j) ==
            IF j <= Len(s) /\ s[j] = 93 THEN Parsed([t |-> "arr", a |-> <<>>], j + 1)
            ELSE ParseItems(s, j, <<>>)
    IN  IF i < 1 \/ i > Len(s) THEN NoValue
        ELSE IF s[i] = 123 THEN Object(SkipSpace(s, i + 1))
        ELSE IF s[i] = 91 THEN Array(SkipSpace(s, i + 1))
        ELSE IF s[i] = 34 THEN ParseString(s, i)
        ELSE ParseLiteral(s, i)
ParseMembers(s, i, acc) ==
    LET Sep(members, j) ==
            IF j > Len(s) THEN NoValue
            ELSE IF s[j] = 125 THEN Parsed([t |-> "obj", m |-> members], j + 1)
            ELSE IF s[j] = 44 THEN ParseMembers(s, SkipSpace(s, j + 1), members)
            ELSE NoValue
        Rest(key, val) ==
            IF ~val.ok THEN NoValue
            ELSE Sep(Append(acc, [k |-> key, v |-> val.v]), SkipSpace(s, val.next))
        AfterKey(key, j) ==
            IF ~key.ok \/ j > Len(s) THEN NoValue
            ELSE IF s[j] # 58 THEN NoValue
            ELSE Rest(key.v.s, ParseValue(s, SkipSpace(s, j + 1)))
        Key(key) == AfterKey(key, SkipSpace(s, key.next))
    IN  IF i > Len(s) THEN NoValue
        ELSE IF s[i] # 34 THEN NoValue
        ELSE Key(ParseString(s, i))
ParseItems(s, i, acc) ==
    LET Sep(items, j) ==
            IF j > Len(s) THEN NoValue
            ELSE IF s[j] = 93 THEN Parsed([t |-> "arr", a |-> items], j + 1)
            ELSE IF s[j] = 44 THEN ParseItems(s, SkipSpace(s, j + 1), items)
            ELSE NoValue
        Item(val) ==
            IF ~val.ok THEN NoValue
            ELSE Sep(Append(acc, val.v), SkipSpace(s, val.next))
    IN  Item(ParseValue(s, i))

\* checkValid and the scan of the decoder: the one JSON value the whole of
\* data is, white space around it allowed.
ParseDocument(data) ==
    LET Whole(r) ==
            IF r.ok /\ SkipSpace(data, r.next) = Len(data) + 1 THEN r ELSE NoValue
    IN  Whole(ParseValue(data, SkipSpace(data, 1)))

\* The name of a struct field that an object key is matched against: the
\* decoder takes the key whatever the case of its letters.
FoldName(key) == [i \in 1..Len(key) |-> IF key[i] \in 65..90 THEN key[i] + 32 ELSE key[i]]

\* strconv.ParseInt on decimal digits, and the decoder at a string field
\* and at an int field that hold old: null leaves the field alone, a value
\* of another type is an error, and so is a number that is no integer.  The
\* documents of the model hold integers of at most nine digits.
RECURSIVE Atoi(_)
Atoi(text) ==
    IF text = <<>> THEN 0
    ELSE HexVal(text[Len(text)]) + 10 * Atoi(SubSeq(text, 1, Len(text) - 1))
DecodeString(v, old) ==
    IF v.t = "str" THEN [ok |-> TRUE, val |-> v.s]
    ELSE [ok |-> v.t = "null", val |-> old]
DecodeInt(v, old) ==
    LET Digits(text) == \A i \in 1..Len(text) : text[i] \in DigitBytes
    IN  IF v.t = "null" THEN [ok |-> TRUE, val |-> old]
        ELSE IF v.t # "num" THEN [ok |-> FALSE, val |-> old]
        ELSE IF Head(v.s) = 45
        THEN (IF Digits(Tail(v.s)) /\ Len(v.s) <= 10
              THEN [ok |-> TRUE, val |-> 0 - Atoi(Tail(v.s))] ELSE [ok |-> FALSE, val |-> old])
        ELSE IF Digits(v.s) /\ Len(v.s) <= 9 THEN [ok |-> TRUE, val |-> Atoi(v.s)]
        ELSE [ok |-> FALSE, val |-> old]

\* The decoder at a []string field: null makes the slice nil, an array
\* makes it the strings of the array, the empty string for a null item.
DecodeStrings(v) ==
    LET Item(x) == DecodeString(x, <<>>)
    IN  IF v.t = "null" THEN [ok |-> TRUE, val |-> NilSlice]
        ELSE IF v.t # "arr" THEN [ok |-> FALSE, val |-> NilSlice]
        ELSE [ok |-> \A i \in 1..Len(v.a) : Item(v.a[i]).ok,
              val |-> [i \in 1..Len(v.a) |-> Item(v.a[i]).val]]

\* The zero FileIR.
ZeroFileIR ==
    [Hash |-> <<>>, Imports |-> NilSlice, Functions |-> NilSlice,
     Classes |-> NilSlice, Exports |-> NilSlice]

\* The decoder at a FileIR that is file, from member i of members on: a
\* member whose key is no field of the struct is skipped.
RECURSIVE DecodeFields(_, _, _)
DecodeFields(file, members, i) ==
    LET Next(ok, f) ==
            IF ok THEN DecodeFields(f, members, i + 1) ELSE [ok |-> FALSE, val |-> file]
        Hash(r) == Next(r.ok, [file EXCEPT !.Hash = r.val])
        Imports(r) == Next(r.ok, [file EXCEPT !.Imports = r.val])
        Functions(r) == Next(r.ok, [file EXCEPT !.Functions = r.val])
        Classes(r) == Next(r.ok, [file EXCEPT !.Classes = r.val])
        Exports(r) == Next(r.ok, [file EXCEPT !.Exports = r.val])
        Field(name, v) ==
            CASE name = JSONText.hash -> Hash(DecodeString(v, file.Hash))
              [] name = JSONText.imports -> Imports(DecodeStrings(v))
              [] name = JSONText.functions -> Functions(DecodeStrings(v))
              [] name = JSONText.classes -> Classes(DecodeStrings(v))
              [] name = JSONText.exports -> Exports(DecodeStrings(v))
              [] OTHER -> Next(TRUE, file)
    IN  IF i > Len(members) THEN [ok |-> TRUE, val |-> file]
        ELSE Field(FoldName(members[i].k), members[i].v)

\* The decoder at an element of the files map: a fresh FileIR for every
\* key, which null leaves zero.
DecodeFileIR(v) ==
    IF v.t = "null" THEN [ok |-> TRUE, val |-> ZeroFileIR]
    ELSE IF v.t # "obj" THEN [ok |-> FALSE, val |-> ZeroFileIR]
    ELSE DecodeFields(ZeroFileIR, v.m, 1)

\* The decoder at the files field that holds old: null makes the map nil,
\* an object adds its members to the map.
RECURSIVE DecodeEntries(_, _, _)
DecodeEntries(files, members, i) ==
    LET Entry(r) ==
            IF r.ok THEN DecodeEntries(Put(files, members[i].k, r.val), members, i + 1)
            ELSE [ok |-> FALSE, val |-> files]
    IN  IF i > Len(members) THEN [ok |-> TRUE, val |-> files]
        ELSE Entry(DecodeFileIR(members[i].v))
DecodeFiles(v, old) ==
    IF v.t = "null" THEN [ok |-> TRUE, val |-> NoFiles]
    ELSE IF v.t # "obj" THEN [ok |-> FALSE, val |-> old]
    ELSE DecodeEntries(old, v.m, 1)

\* The decoder at the struct of UnmarshalJSON that is aux, from member i
\* of members on.
RECURSIVE DecodeAux(_, _, _)
DecodeAux(aux, members, i) ==
    LET Next(r, a) ==
            IF r.ok THEN DecodeAux(a, members, i + 1) ELSE [ok |-> FALSE, val |-> aux]
        Version(r) == Next(r, [aux EXCEPT !.Version = r.val])
        RootHash(r) == Next(r, [aux EXCEPT !.RootHash = r.val])
        Files(r) == Next(r, [aux EXCEPT !.Files = r.val])
        Field(name, v) ==
            CASE name = JSONText.version -> Version(DecodeInt(v, aux.Version))
              [] name = JSONText.root_hash -> RootHash(DecodeString(v, aux.RootHash))
              [] name = JSONText.files -> Files(DecodeFiles(v, aux.Files))
              [] OTHER -> Next([ok |-> TRUE], aux)
    IN  IF i > Len(members) THEN [ok |-> TRUE, val |-> aux]
        ELSE Field(FoldName(members[i].k), members[i].v)

\* The zero IR that Load declares.
ZeroIR == [Version |-> 0, RootHash |-> <<>>, Files |-> NoFiles]

\* json.Unmarshal(data, &ir), through IR.UnmarshalJSON: an error for data
\* that is not JSON and for a value of the wrong type anywhere in the three
\* fields; null and an object without the fields leave the zero values.
\* r is what the decoder made of the members, doc what the scanner made of
\* data.
UnmarshalStored(r) ==
    IF r.ok THEN [err |-> FALSE, ir |-> r.val] ELSE [err |-> TRUE, ir |-> ZeroIR]
UnmarshalValue(doc) ==
    IF ~doc.ok THEN [err |-> TRUE, ir |-> ZeroIR]
    ELSE IF doc.v.t = "null" THEN [err |-> FALSE, ir |-> ZeroIR]
    ELSE IF doc.v.t # "obj" THEN [err |-> TRUE, ir |-> ZeroIR]
    ELSE UnmarshalStored(DecodeAux(ZeroIR, doc.v.m, 1))
Unmarshal(data) == UnmarshalValue(ParseDocument(data))

----------------------------------------------------------------------------
(* internal/ir: Generator *)

DefaultIgnoredPaths ==
    {Str("node_modules"), Str("dist"), Str(".git"), Str(".cursor"), Str(".vscode")}

\* A constructor that adds the configured names to the default ones.
NewGeneratorWithDefaults(config) ==
    [parser |-> NewJSParser,
     ignoredPaths |-> DefaultIgnoredPaths \cup {config[i] : i \in 1..Len(config)}]

\* NewGenerator: the parser, and the ignore-set of the configuration (its
\* IgnoredPaths list), the default one if that is empty.
NewGenerator(config) ==
    LET ignored == {config[i] : i \in 1..Len(config)}
    IN  [parser |-> NewJSParser,
         ignoredPaths |-> IF Cardinality(ignored) = 0 THEN DefaultIgnoredPaths ELSE ignored]

\* Generator.parseFile
parseFile(g, fsys, path) ==
    LET Entry(hash, structure) ==
            [err |-> FALSE,
             file |-> [Hash      |-> hash,
                       Imports   |-> SortStrings(structure.Imports),
                       Functions |-> SortStrings(structure.Functions),
                       Classes   |-> SortStrings(structure.Classes),
                       Exports   |-> SortStrings(structure.Exports)]]
        Built(content, hash) ==
            IF content.err \/ hash.err
            THEN [err |-> TRUE,
                  file |-> [Hash |-> <<>>, Imports |-> <<>>, Functions |-> <<>>,
                            Classes |-> <<>>, Exports |-> <<>>]]
            ELSE Entry(hash.hash, g.parser[content.data])
    IN  Built(ReadFile(fsys, path), HashFile(fsys, path))

\* What a walk function returns: nil or filepath.SkipDir, and the map it
\* has filled so far.
Return(ret, files) == [ret |-> ret, files |-> files]

\* The part the two walk functions share: errors, symbolic links,
\* directories and unsupported extensions.  TRUE when the entry is a file
\* to record.
Eligible(info, err, path) ==
    /\ ~err
    /\ ~info.isSymlink
    /\ ~info.isDir
    /\ SupportsExtension(Ext(path))

\* Walk functions that hand the error of an entry back to filepath.Walk.
SkipReturnPropagating(g, info, err, path) ==
    IF err THEN "error"
    ELSE IF info.isDir /\ Base(path) \in g.ignoredPaths THEN "SkipDir"
    ELSE "nil"

DistName == Str("dist")

\* Walk functions that descend into a directory named dist.
SkipReturnEnteringDist(g, info, err, path) ==
    IF ~err /\ info.isDir /\ Base(path) \in g.ignoredPaths \ {DistName} THEN "SkipDir"
    ELSE "nil"

\* What the walk functions return for an entry that is not recorded.
SkipReturn(g, info, err, path) ==
    IF err THEN "nil"
    ELSE IF info.isSymlink THEN (IF info.isDir THEN "SkipDir" ELSE "nil")
    ELSE IF info.isDir THEN (IF Base(path) \in g.ignoredPaths THEN "SkipDir" ELSE "nil")
    ELSE "nil"

\* The walk function of Generate.
\* A walk function for Generate that records a file under the path the walk
\* visits it by.
GenerateWalkFnFullPath(g, fsys, absRoot, files, path, info, err) ==
    LET Record(parsed) ==
            IF parsed.err THEN Return("nil", files)
            ELSE Return("nil", Put(files, normalizePath(path), parsed.file))
    IN  IF ~Eligible(info, err, path) THEN Return(SkipReturn(g, info, err, path), files)
        ELSE Record(parseFile(g, fsys, path))

GenerateWalkFn(g, fsys, absRoot, files, path, info, err) ==
    LET Record(parsed, rel) ==
            IF parsed.err \/ rel.err THEN Return("nil", files)
            ELSE Return("nil", Put(files, normalizePath(rel.path), parsed.file))
    IN  IF ~Eligible(info, err, path) THEN Return(SkipReturn(g, info, err, path), files)
        ELSE Record(parseFile(g, fsys, path), Rel(absRoot, path))

\* A walk function for Update that never looks at the prior representation.
UpdateWalkFnReparseAll(g, fsys, existingIR, absRoot, files, path, info, err) ==
    GenerateWalkFn(g, fsys, absRoot, files, path, info, err)

\* A walk function for Update that keeps the prior entry of every path the
\* prior representation has, whatever the file's hash is now.
UpdateWalkFnKeepStale(g, fsys, existingIR, absRoot, files, path, info, err) ==
    LET Kept(key) ==
            IF key \in DOMAIN existingIR.Files /\ ~HashFile(fsys, path).err
            THEN Return("nil", Put(files, key, existingIR.Files[key]))
            ELSE GenerateWalkFn(g, fsys, absRoot, files, path, info, err)
    IN  IF ~Eligible(info, err, path) THEN Return(SkipReturn(g, info, err, path), files)
        ELSE Kept(normalizePath(Rel(absRoot, path).path))

\* The walk function of Update.
UpdateWalkFn(g, fsys, existingIR, absRoot, files, path, info, err) ==
    LET Reparse(normalizedPath, parsed) ==
            IF parsed.err THEN Return("nil", files)
            ELSE Return("nil", Put(files, normalizedPath, parsed.file))
        Compare(normalizedPath, currentHash) ==
            IF currentHash.err THEN Return("nil", files)
            ELSE IF /\ normalizedPath \in DOMAIN existingIR.Files
                    /\ existingIR.Files[normalizedPath].Hash = currentHash.hash
                 THEN Return("nil", Put(files, normalizedPath, existingIR.Files[normalizedPath]))
            ELSE Reparse(normalizedPath, parseFile(g, fsys, path))
        Seen(rel) ==
            IF rel.err THEN Return("nil", files)
            ELSE Compare(normalizePath(rel.path), HashFile(fsys, path))
    IN  IF ~Eligible(info, err, path) THEN Return(SkipReturn(g, info, err, path), files)
        ELSE Seen(Rel(absRoot, path))

\* The walk function of the call: cb.op is "Generate" or "Update".
WalkFn(cb, fsys, files, path, info, err) ==
    IF cb.op = "Generate"
    THEN GenerateWalkFn(cb.g, fsys, cb.absRoot, files, path, info, err)
    ELSE UpdateWalkFn(cb.g, fsys, cb.existingIR, cb.absRoot, files, path, info, err)

\* filepath.walk and its loop over the names of a directory.
RECURSIVE walk(_, _, _, _, _)
RECURSIVE walkNames(_, _, _, _, _, _)
walkNames(cb, fsys, files, path, names, i) ==
    LET After(r, stop) ==
            IF stop THEN r ELSE walkNames(cb, fsys, r.files, path, names, i + 1)
        Visited(fileInfo, r) ==
            After(r, IF fileInfo.err THEN r.ret \notin {"nil", "SkipDir"}
                     ELSE r.ret # "nil" /\ (~fileInfo.isDir \/ r.ret # "SkipDir"))
        Visit(filename, fileInfo) ==
            Visited(fileInfo,
                    IF fileInfo.err THEN WalkFn(cb, fsys, files, filename, fileInfo, TRUE)
                    ELSE walk(cb, fsys, files, filename, fileInfo))
        Named(filename) == Visit(filename, Lstat(fsys, filename))
    IN  IF i > Len(names) THEN Return("nil", files)
        ELSE Named(Join(path, names[i]))
walk(cb, fsys, files, path, info) ==
    LET Entered(dir, r) ==
            IF dir.err \/ r.ret # "nil" THEN r
            ELSE walkNames(cb, fsys, r.files, path, dir.names, 1)
        Listed(dir) == Entered(dir, WalkFn(cb, fsys, files, path, info, dir.err))
    IN  IF ~info.isDir THEN WalkFn(cb, fsys, files, path, info, FALSE)
        ELSE Listed(readDirNames(fsys, path))

\* filepath.Walk
Walk(cb, fsys, root) ==
    LET Done(r) == IF r.ret = "SkipDir" THEN Return("nil", r.files) ELSE r
        Root(info) ==
            Done(IF info.err THEN WalkFn(cb, fsys, NoFiles, root, info, TRUE)
                 ELSE walk(cb, fsys, NoFiles, root, info))
    IN  Root(Lstat(fsys, root))

\* The nil *IR of a failed call.
NilIR == [Version |-> 0, RootHash |-> <<>>, Files |-> NoFiles]

\* The files map that Generate's walk fills.
GenerateFiles(g, fsys, rootPath) ==
    Walk([op |-> "Generate", g |-> g, absRoot |-> Clean(Abs(rootPath))],
         fsys, Clean(Abs(rootPath)))

\* The end of a call that returns the map without computing its root hash.
FinishUnhashed(w, iter) ==
    IF w.ret # "nil" THEN [err |-> TRUE, ir |-> NilIR]
    ELSE [err |-> FALSE, ir |-> [Version |-> 1, RootHash |-> <<>>, Files |-> w.files]]

\* The end of Generate and of Update, after the walk returned w: the error
\* of the walk, or the representation with its root hash.  iter is the
\* order in which ComputeRootHash ranges over the files.
Finish(w, iter) ==
    IF w.ret # "nil" THEN [err |-> TRUE, ir |-> NilIR]
    ELSE [err |-> FALSE,
          ir |-> [Version |-> 1,
                  RootHash |-> ComputeRootHash(w.files, iter),
                  Files |-> w.files]]

\* Generator.Generate
Generate(g, fsys, rootPath, iter) == Finish(GenerateFiles(g, fsys, rootPath), iter)

\* An Update that starts from the map of the prior representation instead
\* of an empty one: the walk overwrites the keys it records.
UpdateFilesKeepingPrior(g, fsys, existingIR, rootPath) ==
    LET Over(w) ==
            [w EXCEPT !.files = [k \in (DOMAIN w.files) \cup (DOMAIN existingIR.Files) |->
                                    IF k \in DOMAIN w.files THEN w.files[k]
                                    ELSE existingIR.Files[k]]]
        From(absRoot) ==
            Over(Walk([op |-> "Update", g |-> g, existingIR |-> existingIR,
                       absRoot |-> absRoot], fsys, absRoot))
    IN  From(Clean(Abs(rootPath)))

\* The files map that Update's walk fills.
UpdateFiles(g, fsys, existingIR, rootPath) ==
    Walk([op |-> "Update", g |-> g, existingIR |-> existingIR,
          absRoot |-> Clean(Abs(rootPath))],
         fsys, Clean(Abs(rootPath)))

\* Generator.Update
Update(g, fsys, existingIR, rootPath, iter) ==
    Finish(UpdateFiles(g, fsys, existingIR, rootPath), iter)

----------------------------------------------------------------------------
(* internal/ir: Save and Load *)

DefaultIRPath == Str(".ai/ir.json")

\* os.WriteFile(path, data, 0644): the file is created in its directory, or
\* truncated and written when it exists.  (No path of the model names a
\* symbolic link that points to nothing.)
osWriteFile(fsys, path, data) ==
    LET Failed == [err |-> TRUE, fs |-> fsys]
        Into(target) ==
            IF fsys[target].kind # "file" \/ fsys[target].perm # "rwx" THEN Failed
            ELSE [err |-> FALSE, fs |-> [fsys EXCEPT ![target].data = data]]
        Create(parent, name) ==
            IF \/ parent.err
               \/ fsys[parent.elems].kind # "dir"
               \/ fsys[parent.elems].perm # "rwx"
               \/ Append(parent.elems, name) \in DOMAIN fsys
            THEN Failed
            ELSE [err |-> FALSE, fs |-> Put(fsys, Append(parent.elems, name), File("rwx", data))]
        In(elems) ==
            IF elems = <<>> THEN Failed
            ELSE Create(Resolve(fsys, IF IsAbs(path) THEN <<>> ELSE WorkingDir,
                                SubSeq(elems, 1, Len(elems) - 1), TRUE, MaxSymlinks),
                        elems[Len(elems)])
        At(r) == IF r.err THEN In(Elements(path)) ELSE Into(r.elems)
    IN  At(Lookup(fsys, path, TRUE))

\* json.Marshal(ir): the bytes of IR.MarshalJSON, compacted.
Marshal(ir, iter) == Compact(MarshalJSON(ir, iter))

\* IR.Save: the error and the file system after the call.
Save(ir, fsys, path, iter) ==
    osWriteFile(fsys, IF path = <<>> THEN DefaultIRPath ELSE path, Marshal(ir, iter))

\* Load: the error, or the representation decoded from the file; f is what
\* os.ReadFile returned.
LoadData(f) == IF f.err THEN [err |-> TRUE, ir |-> NilIR] ELSE Unmarshal(f.data)
Load(fsys, path) == LoadData(ReadFile(fsys, path))

----------------------------------------------------------------------------
(* The state machine: a project directory /w that changes on disk, and a   *)
(* caller that runs Generate and Update on it.                             *)

\* The number of changes made to the file system in one behaviour.
MaxFsOps == 2

\* Element sequences of the paths of the model.
PathW == <<Str("w")>>
PathA == <<Str("w"), Str("a.js")>>
PathB == <<Str("w"), Str("b.gs")>>
PathC == <<Str("w"), Str("c.py")>>
PathLib == <<Str("w"), Str("lib")>>
PathE == <<Str("w"), Str("lib"), Str("e.ts")>>
PathDist == <<Str("w"), Str("lib"), Str("dist")>>
PathD == <<Str("w"), Str("lib"), Str("dist"), Str("d.js")>>
PathX == <<Str("w"), Str("lib"), Str("x.JS")>>
PathY == <<Str("w"), Str("y.jsx")>>
PathM == <<Str("w"), Str("m.ts")>>

\* A directory of each default ignored name, directly below /w, with an
\* eligible file in it.
IgnoredTree ==
    (<<Str("w"), Str("node_modules")>> :> Dir("rwx"))
    @@ (<<Str("w"), Str("node_modules"), Str("n.js")>> :> File("rwx", SrcA))
    @@ (<<Str("w"), Str("dist")>> :> Dir("rwx"))
    @@ (<<Str("w"), Str("dist"), Str("o.js")>> :> File("rwx", SrcB))
    @@ (<<Str("w"), Str(".git")>> :> Dir("rwx"))
    @@ (<<Str("w"), Str(".git"), Str("g.js")>> :> File("rwx", SrcA))
    @@ (<<Str("w"), Str(".cursor")>> :> Dir("rwx"))
    @@ (<<Str("w"), Str(".cursor"), Str("c.ts")>> :> File("rwx", SrcA))
    @@ (<<Str("w"), Str(".vscode")>> :> Dir("rwx"))
    @@ (<<Str("w"), Str(".vscode"), Str("v.gs")>> :> File("rwx", SrcA))

\* Two symbolic links directly below /w: s.js, to the file /w/a.js by its
\* absolute path, and ln, to the directory /w/lib by a relative path.
PathS == <<Str("w"), Str("s.js")>>
PathLn == <<Str("w"), Str("ln")>>
LinkTree ==
    (PathS :> Symlink(Str("/w/a.js"))) @@ (PathLn :> Symlink(Str("lib")))

\* The tree the behaviours start from:
\*   /w/a.js  /w/c.py  /w/y.jsx  /w/m.ts/  /w/lib/e.ts  /w/lib/x.JS
\*   /w/lib/dist/d.js  /w/s.js -> /w/a.js  /w/ln -> lib
\*   and the directories of IgnoredTree
InitTree ==
    (<<>> :> Dir("rwx")) @@ (PathW :> Dir("rwx"))
    @@ (PathA :> File("rwx", SrcA)) @@ (PathC :> File("rwx", SrcB))
    @@ (PathY :> File("rwx", SrcA)) @@ (PathM :> Dir("rwx"))
    @@ (PathLib :> Dir("rwx")) @@ (PathE :> File("rwx", SrcB))
    @@ (PathX :> File("rwx", SrcB))
    @@ (PathDist :> Dir("rwx")) @@ (PathD :> File("rwx", SrcA))
    @@ LinkTree @@ IgnoredTree

\* The inputs of the operations.
Configs == {<<>>, <<Str("lib"), Str("node_modules"), Str(".git"), Str(".cursor"), Str(".vscode")>>}
RootInputs == {Str("/w")}
WriteInputs == {<<PathA, SrcC>>, <<PathA, SrcA>>, <<PathB, SrcA>>}
RemoveTargets == {PathA, PathLib, PathW}
ChmodInputs == {<<PathA, "---">>, <<PathLib, "r--">>, <<PathLib, "---">>, <<PathW, "---">>}

\* No call has been made.
NoCall == [op |-> "none", rootPath |-> <<>>, tree |-> <<>>, at |-> 0, prior |-> NilIR,
           chained |-> TRUE, err |-> FALSE, ir |-> NilIR, data |-> <<>>]

Init ==
    /\ fs = InitTree
    /\ ops = 0
    /\ generator \in {NewGenerator(config) : config \in Configs}
    /\ last = NoCall
    /\ prev = NoCall

\* os.WriteFile(path, data, 0644): creates the file or replaces its content.
WriteFile(elems, data) ==
    /\ ops < MaxFsOps
    /\ SubSeq(elems, 1, Len(elems) - 1) \in DOMAIN fs
    /\ elems \in DOMAIN fs => fs[elems].kind = "file" /\ fs[elems].data # data
    /\ fs' = Put(fs, elems, File(IF elems \in DOMAIN fs THEN fs[elems].perm ELSE "rwx", data))
    /\ ops' = ops + 1
    /\ UNCHANGED <<generator, last, prev>>

\* os.RemoveAll(path): the node and everything below it.
RemoveAll(elems) ==
    /\ ops < MaxFsOps
    /\ elems \in DOMAIN fs
    /\ fs' = [q \in {r \in DOMAIN fs : ~(Len(r) >= Len(elems) /\ SubSeq(r, 1, Len(elems)) = elems)}
                |-> fs[q]]
    /\ ops' = ops + 1
    /\ UNCHANGED <<generator, last, prev>>

\* os.Chmod(path, mode)
Chmod(elems, perm) ==
    /\ ops < MaxFsOps
    /\ elems \in DOMAIN fs
    /\ fs[elems].perm # perm
    /\ fs' = [fs EXCEPT ![elems].perm = perm]
    /\ ops' = ops + 1
    /\ UNCHANGED <<generator, last, prev>>

\* The caller runs ir, err := generator.Generate(rootPath).
GenerateCall(rootPath) ==
    LET Returned(r) ==
            last' = [op |-> "Generate", rootPath |-> rootPath, tree |-> fs, at |-> ops,
                     prior |-> NilIR, chained |-> TRUE, err |-> r.err, ir |-> r.ir,
                     data |-> <<>>]
        Walked(w) == \E iter \in Orders(DOMAIN w.files) : Returned(Finish(w, iter))
    IN  /\ Walked(GenerateFiles(generator, fs, rootPath))
        /\ prev' = last
        /\ UNCHANGED <<fs, ops, generator>>

\* The functions list of an entry that another producer wrote.
ForeignFunctions == <<Str("legacy")>>

\* The representations the caller can hand to Update after a call returned
\* ir: ir itself, or one with the same keys and hashes whose symbol lists
\* were written by another producer.
Foreign(ir) ==
    [ir EXCEPT !.Files = [k \in DOMAIN ir.Files |->
                            [ir.Files[k] EXCEPT !.Functions = ForeignFunctions]]]

\* The caller runs ir, err := generator.Update(existingIR, rootPath), where
\* existingIR is the representation the latest call returned, or a foreign
\* one.  chained records that the result descends from Generate through
\* Update calls only.
UpdateCall(rootPath, foreign) ==
    LET Returned(existingIR, r) ==
            last' = [op |-> "Update", rootPath |-> rootPath, tree |-> fs, at |-> ops,
                     prior |-> existingIR, chained |-> last.chained /\ ~foreign, data |-> <<>>,
                     err |-> r.err, ir |-> r.ir]
        Walked(existingIR, w) ==
            \E iter \in Orders(DOMAIN w.files) : Returned(existingIR, Finish(w, iter))
    IN  /\ last.op # "none"
        /\ ~last.err
        /\ foreign => DOMAIN last.ir.Files # {}
        /\ Walked(IF foreign THEN Foreign(last.ir) ELSE last.ir,
                  UpdateFiles(generator, fs,
                              IF foreign THEN Foreign(last.ir) ELSE last.ir, rootPath))
        /\ prev' = last
        /\ UNCHANGED <<fs, ops, generator>>

Next ==
    \/ \E c \in WriteInputs : WriteFile(c[1], c[2])
    \/ \E elems \in RemoveTargets : RemoveAll(elems)
    \/ \E c \in ChmodInputs : Chmod(c[1], c[2])
    \/ \E rootPath \in RootInputs : GenerateCall(rootPath)
    \/ \E rootPath \in RootInputs, foreign \in BOOLEAN : UpdateCall(rootPath, foreign)

Spec == Init /\ [][Next]_vars

----------------------------------------------------------------------------
(* ComputeRootHash as a function of the map it is given: two maps are      *)
(* chosen at the start, and the root hash of each is computed in turn.     *)

\* The keys of the maps.  KeyAB is the name of one file, with a colon and
\* a newline in it.
KeyA == Str("a.js")
KeyB == Str("b.ts")
KeyAB == KeyA \o Colon \o HashBytes(SrcA) \o Newline \o KeyB
MapKeys == {KeyA, KeyB, KeyAB}

\* The entries of the maps: two hashes, and two symbol lists for one hash.
MapEntries ==
    {[Hash |-> HashBytes(c[1]), Imports |-> <<>>, Functions |-> c[2],
      Classes |-> <<>>, Exports |-> <<>>] :
        c \in {<<SrcA, <<>>>>, <<SrcA, <<Str("f")>>>>, <<SrcB, <<>>>>}}

\* Every map from some of the keys to entries.
Maps == UNION {[S -> MapEntries] : S \in SUBSET MapKeys}

\* A representation whose root hash has not been computed yet.
Unhashed(files) ==
    [op |-> "map", rootPath |-> <<>>, tree |-> <<>>, at |-> 0, prior |-> NilIR,
     chained |-> TRUE, data |-> <<>>,
     err |-> FALSE, ir |-> [Version |-> 1, RootHash |-> <<>>, Files |-> files]]

RootHashInit ==
    /\ fs = InitTree
    /\ ops = 0
    /\ generator = NewGenerator(<<>>)
    /\ last \in {Unhashed(files) : files \in Maps}
    /\ prev \in {Unhashed(files) : files \in Maps}

\* ir.RootHash = ComputeRootHash(ir.Files), on the earlier of the two
\* representations, which then becomes the latest.
ComputeRootHashCall ==
    /\ prev.op = "map"
    /\ \E iter \in Orders(DOMAIN prev.ir.Files) :
          last' = [prev EXCEPT !.op = "ComputeRootHash",
                               !.ir.RootHash = ComputeRootHash(prev.ir.Files, iter)]
    /\ prev' = last
    /\ UNCHANGED <<fs, ops, generator>>

RootHashNext == ComputeRootHashCall

RootHashSpec == RootHashInit /\ [][RootHashNext]_vars

----------------------------------------------------------------------------
(* Properties *)

\* The latest two calls were op1 (earlier) and op2 (later), on the same root
\* path, and the file system was the same at both.
SameTree(op1, op2) ==
    /\ prev.op = op1
    /\ last.op = op2
    /\ prev.rootPath = last.rootPath
    /\ prev.tree = last.tree

\* The two outcomes agree: both failed, or both returned representations
\* with the same keys, the same entries and the same root hash.
SameFields(r1, r2) ==
    /\ r1.err = r2.err
    /\ DOMAIN r1.ir.Files = DOMAIN r2.ir.Files
    /\ \A k \in DOMAIN r1.ir.Files : r1.ir.Files[k] = r2.ir.Files[k]
    /\ r1.ir.RootHash = r2.ir.RootHash

\* The two representations have the same JSON bytes, in whatever order
\* their maps are ranged over.
SameBytes(ir1, ir2) ==
    LET Against(bytes) ==
            /\ \A i1 \in Orders(DOMAIN ir1.Files) : MarshalJSON(ir1, i1) = bytes
            /\ \A i2 \in Orders(DOMAIN ir2.Files) : MarshalJSON(ir2, i2) = bytes
    IN  Against(MarshalJSON(ir1, Ascending(DOMAIN ir1.Files)))

\* The two outcomes are the same in fields and in bytes.
SameOutcome(r1, r2) == SameFields(r1, r2) /\ SameBytes(r1.ir, r2.ir)

\* C1: two calls of Generate on the same directory tree with the same
\* ignore-set return the same keys, the same entries and the same root hash,
\* and their JSON output is byte-identical, whatever order the maps are
\* iterated in.
GenerateIsDeterministic ==
    SameTree("Generate", "Generate") => SameOutcome(prev, last)

\* Two calls of Generate on the same tree, each returning several files.
GenerateTwiceSameTree ==
    /\ SameTree("Generate", "Generate")
    /\ ~last.err
    /\ Cardinality(DOMAIN last.ir.Files) >= 2
    /\ Cardinality(DOMAIN prev.ir.Files) >= 2

\* The element sequence of the absolute root of a call.
RootOf(rootPath) == Elements(Clean(Abs(rootPath)))

\* q is a regular file of tree below root that can be reached and read.
Readable(tree, root, q) ==
    /\ Len(q) > Len(root)
    /\ SubSeq(q, 1, Len(root)) = root
    /\ tree[q].kind = "file"
    /\ tree[q].perm # "---"
    /\ \A k \in 0..(Len(q) - 1) : tree[SubSeq(q, 1, k)].perm = "rwx"

\* q lies in a directory, the root included, whose name is in the ignore-set.
UnderIgnored(ignored, root, q) ==
    \E k \in 1..(Len(q) - 1) : k >= Len(root) /\ q[k] \in ignored

\* The eligible files of a call: readable regular files with a supported
\* extension outside every ignored directory.
EligibleFiles(g, tree, rootPath) ==
    LET Below(root) ==
            {q \in DOMAIN tree : /\ Readable(tree, root, q)
                                 /\ ~UnderIgnored(g.ignoredPaths, root, q)
                                 /\ Ext(q[Len(q)]) \in SupportedExtensions}
    IN  Below(RootOf(rootPath))

\* The canonical path of the file at q: its elements below the root joined
\* by "/".
KeyOf(rootPath, q) ==
    LET Below(root) == JoinStrings(SubSeq(q, Len(root) + 1, Len(q)), Slash)
    IN  Below(RootOf(rootPath))

\* The entry extracted from content data: its hash and the four lists of
\* the parser.
FreshEntry(data) ==
    LET Listed(structure) ==
            [Hash      |-> HashBytes(data),
             Imports   |-> structure.Imports,
             Functions |-> structure.Functions,
             Classes   |-> structure.Classes,
             Exports   |-> structure.Exports]
    IN  Listed(NewJSParser[data])

\* The entry C2 requires of Update for content data at canonical path key.
ReusedOrFresh(prior, key, data) ==
    IF key \in DOMAIN prior.Files /\ prior.Files[key].Hash = HashBytes(data)
    THEN prior.Files[key]
    ELSE FreshEntry(data)

\* C2: Update records, for every eligible file, the prior entry itself when
\* the prior representation has one at the file's canonical path with the
\* file's current content hash, and otherwise the current hash with the
\* lists extracted from the current content.
UpdateReusesOrReparses ==
    (last.op = "Update" /\ ~last.err) =>
        \A q \in EligibleFiles(generator, last.tree, last.rootPath) :
            LET Entry(key) ==
                    /\ key \in DOMAIN last.ir.Files
                    /\ last.ir.Files[key] = ReusedOrFresh(last.prior, key, last.tree[q].data)
            IN  Entry(KeyOf(last.rootPath, q))

\* An Update that took one entry over from a foreign prior representation,
\* extracted another one again because its hash had changed, and extracted
\* a third one that the prior representation did not have.
UpdateReusedAndReparsed ==
    /\ last.op = "Update"
    /\ ~last.err
    /\ \E k1, k2, k3 \in DOMAIN last.ir.Files :
          /\ k1 \in DOMAIN last.prior.Files
          /\ last.ir.Files[k1] = last.prior.Files[k1]
          /\ last.ir.Files[k1].Functions = ForeignFunctions
          /\ k2 \in DOMAIN last.prior.Files
          /\ last.ir.Files[k2].Hash # last.prior.Files[k2].Hash
          /\ last.ir.Files[k2].Functions # ForeignFunctions
          /\ k3 \notin DOMAIN last.prior.Files

\* C3: an Update whose prior representation descends from Generate through
\* Update calls returns what Generate returns on the tree as it is now: the
\* same keys, the same entries, the same root hash and the same serialized
\* bytes, in whatever order the maps are ranged over.
UpdateEqualsGenerate ==
    (last.op = "Update" /\ last.chained) =>
        LET Full(w) ==
                /\ \A iter \in Orders(DOMAIN w.files) : SameFields(last, Finish(w, iter))
                /\ SameBytes(last.ir, Finish(w, Ascending(DOMAIN w.files)).ir)
        IN  Full(GenerateFiles(generator, last.tree, last.rootPath))

\* A chained Update on a tree that changed since the prior representation
\* was made: one file kept its content, one has another content, one is new.
UpdateAfterChanges ==
    /\ last.op = "Update"
    /\ last.chained
    /\ ~last.err
    /\ prev.ir = last.prior
    /\ prev.tree # last.tree
    /\ \E k1, k2, k3 \in DOMAIN last.ir.Files :
          /\ k1 \in DOMAIN last.prior.Files
          /\ last.ir.Files[k1] = last.prior.Files[k1]
          /\ k2 \in DOMAIN last.prior.Files
          /\ last.ir.Files[k2].Hash # last.prior.Files[k2].Hash
          /\ k3 \notin DOMAIN last.prior.Files

\* The root of a call names nothing in tree, or a directory that cannot be
\* reached or listed.
RootInaccessible(tree, rootPath) ==
    LET At(root) ==
            \/ root \notin DOMAIN tree
            \/ \E k \in 0..(Len(root) - 1) : tree[SubSeq(root, 1, k)].perm # "rwx"
            \/ tree[root].perm = "---"
    IN  At(RootOf(rootPath))

\* C4: Generate and Update return an error and no representation when the
\* root path does not exist or cannot be accessed.
MissingRootIsFatal ==
    (last.op \in {"Generate", "Update"} /\ RootInaccessible(last.tree, last.rootPath)) =>
        (last.err /\ last.ir = NilIR)

\* A call on a root that does not exist returned without an error, with a
\* representation that has no files.
MissingRootReturnedEmpty ==
    /\ last.op \in {"Generate", "Update"}
    /\ RootOf(last.rootPath) \notin DOMAIN last.tree
    /\ ~last.err
    /\ last.ir.Version = 1
    /\ last.ir.Files = NoFiles
    /\ last.ir.RootHash = HashBytes(<<>>)

\* The canonical paths of the eligible files of a call.
EligibleKeys(g, tree, rootPath) ==
    {KeyOf(rootPath, q) : q \in EligibleFiles(g, tree, rootPath)}

Pairs(files) == {<<k, files[k].Hash>> : k \in DOMAIN files}

\* The root hashes of both maps have been computed.
BothHashed == prev.op = "ComputeRootHash" /\ last.op = "ComputeRootHash"

\* C6: two maps have the same root hash if and only if they have the same
\* (path, hash) pairs, whatever the paths are.
SameRootHashIffSamePairs ==
    BothHashed =>
        ((prev.ir.RootHash = last.ir.RootHash) <=> (Pairs(prev.ir.Files) = Pairs(last.ir.Files)))

\* Two maps with different keys and the same root hash: one has the files
\* a.js and b.ts, the other the single file whose name is the first line of
\* the former, a newline, and b.ts.
RootHashCollision ==
    /\ BothHashed
    /\ DOMAIN prev.ir.Files = {KeyAB}
    /\ DOMAIN last.ir.Files = {KeyA, KeyB}
    /\ prev.ir.RootHash = last.ir.RootHash

\* The text C8 describes: the lines path ":" hash of the keys in the given
\* order, a newline between two lines and none after the last.
RECURSIVE LinesText(_, _)
LinesText(files, keys) ==
    IF Len(keys) = 0 THEN <<>>
    ELSE keys[1] \o Colon \o files[keys[1]].Hash
         \o (IF Len(keys) > 1 THEN Newline \o LinesText(files, Tail(keys)) ELSE <<>>)

\* C8: the root hash of a map is HashBytes of the lines path ":" hash of its
\* keys in ascending order, joined by one newline with none at the end, in
\* whatever order the map is ranged over; for the empty map it is HashBytes
\* of no bytes.
RootHashIsHashOfSortedLines ==
    /\ prev.op = "ComputeRootHash" =>
            prev.ir.RootHash = HashBytes(LinesText(prev.ir.Files, Ascending(DOMAIN prev.ir.Files)))
    /\ last.op = "ComputeRootHash" =>
            last.ir.RootHash = HashBytes(LinesText(last.ir.Files, Ascending(DOMAIN last.ir.Files)))

\* The root hashes of the empty map and of a map with three keys have been
\* computed.
HashedEmptyAndThree ==
    /\ BothHashed
    /\ prev.ir.Files = NoFiles
    /\ prev.ir.RootHash = HashBytes(<<>>)
    /\ Cardinality(DOMAIN last.ir.Files) = 3
    /\ last.ir.RootHash # HashBytes(<<>>)

\* The (path, hash) pairs of the eligible files of a tree.
TreePairs(g, tree, rootPath) ==
    {<<KeyOf(rootPath, q), HashBytes(tree[q].data)>> : q \in EligibleFiles(g, tree, rootPath)}

\* P1 comes from P0 by one change: the content of one file changed, or one
\* file was added, or one file was removed.
SingleChange(P0, P1) ==
    LET One(D) == D # {} /\ Cardinality({p[1] : p \in D}) = 1
    IN  One((P0 \ P1) \cup (P1 \ P0))

\* C7: after Generate returned root hash h0 for a tree, a call of Generate,
\* or of Update on that result, returns another root hash when one eligible
\* file has changed, has been added or has been removed, and returns h0
\* when the eligible files are as they were.
RootHashFollowsChanges ==
    (/\ prev.op = "Generate"
     /\ last.op \in {"Generate", "Update"}
     /\ last.op = "Update" => last.prior = prev.ir
     /\ prev.rootPath = last.rootPath) =>
        LET Compare(P0, P1) ==
                /\ SingleChange(P0, P1) => last.ir.RootHash # prev.ir.RootHash
                /\ P0 = P1 => last.ir.RootHash = prev.ir.RootHash
        IN  Compare(TreePairs(generator, prev.tree, prev.rootPath),
                    TreePairs(generator, last.tree, last.rootPath))

\* Generate returned h0, a file was changed and changed back, and Update on
\* the result of Generate returned h0 again.
RootHashRestored ==
    /\ prev.op = "Generate"
    /\ last.op = "Update"
    /\ last.prior = prev.ir
    /\ last.at = prev.at + 2
    /\ last.tree = prev.tree
    /\ DOMAIN last.ir.Files # {}
    /\ last.ir.RootHash = prev.ir.RootHash

\* The names of the directories that the canonical path key lies under.
DirsOf(key) ==
    LET Front(parts) == {parts[i] : i \in 1..(Len(parts) - 1)}
    IN  Front(SplitByte(key, Slash[1]))

\* The files of tree below the root that can be reached and read and lie
\* under no directory with a name in ignored.
FilesOutside(ignored, tree, rootPath) ==
    LET Below(root) ==
            {q \in DOMAIN tree : Readable(tree, root, q) /\ ~UnderIgnored(ignored, root, q)}
    IN  Below(RootOf(rootPath))

\* The five directory names of C9.
FiveNames == {Str("node_modules"), Str("dist"), Str(".git"), Str(".cursor"), Str(".vscode")}

\* C9: with the default ignore-set no key of a result of Generate or Update
\* lies under a directory named node_modules, dist, .git, .cursor or
\* .vscode, at any depth, and every eligible file that lies under no such
\* directory is a key of the result.
DefaultIgnoredAreSkipped ==
    (last.op \in {"Generate", "Update"} /\ generator.ignoredPaths = DefaultIgnoredPaths) =>
        /\ \A key \in DOMAIN last.ir.Files :
              DirsOf(key) \cap FiveNames = {}
        /\ \A q \in FilesOutside(FiveNames, last.tree, last.rootPath) :
              SupportsExtension(Ext(q[Len(q)])) => KeyOf(last.rootPath, q) \in DOMAIN last.ir.Files

\* Generate with the default ignore-set on a tree whose only eligible files
\* are one file in the root and files under directories of the five names:
\* the result has the root file alone.
OnlyRootFileRecorded ==
    /\ last.op = "Generate"
    /\ generator.ignoredPaths = DefaultIgnoredPaths
    /\ \A name \in FiveNames :
          \E q \in DOMAIN last.tree :
              /\ last.tree[q].kind = "file"
              /\ Len(q) >= 3
              /\ q[Len(q) - 1] = name
              /\ SupportsExtension(Ext(q[Len(q)]))
    /\ DOMAIN last.ir.Files = {KeyA}

\* The name ends with suffix.
EndsWith(name, suffix) ==
    /\ Len(name) >= Len(suffix)
    /\ SubSeq(name, Len(name) - Len(suffix) + 1, Len(name)) = suffix

\* The name ends with ".js", ".ts" or ".gs".
ThreeExtensions == {Str(".js"), Str(".ts"), Str(".gs")}
HasJSExtension(name) == \E e \in ThreeExtensions : EndsWith(name, e)

\* C10: a regular file that the walk reaches and reads is a key of the
\* result of Generate or Update if and only if its name ends with .js, .ts
\* or .gs, and no key of the result has another extension.
OnlySupportedExtensionsRecorded ==
    last.op \in {"Generate", "Update"} =>
        /\ \A q \in FilesOutside(generator.ignoredPaths, last.tree, last.rootPath) :
              KeyOf(last.rootPath, q) \in DOMAIN last.ir.Files <=> HasJSExtension(q[Len(q)])
        /\ \A key \in DOMAIN last.ir.Files : HasJSExtension(key)

RecordedKeys == {Str("a.js"), Str("b.gs"), Str("lib/e.ts")}

\* A result with a .js, a .gs and a .ts file of a tree that also has
\* readable files named c.py, y.jsx and x.JS.
ThreeExtensionsRecorded ==
    /\ last.op \in {"Generate", "Update"}
    /\ DOMAIN last.ir.Files = RecordedKeys
    /\ {PathC, PathY, PathX} \subseteq
           FilesOutside(generator.ignoredPaths, last.tree, last.rootPath)

----------------------------------------------------------------------------
(* Persistence: a project directory /w with one source file and the        *)
(* directory .ai, where a representation may already be stored, and a      *)
(* caller that generates, updates, serializes, saves and loads.            *)

PathAi == <<Str("w"), Str(".ai")>>
PathIR == <<Str("w"), Str(".ai"), Str("ir.json")>>

\* What the file .ai/ir.json holds when the behaviour starts: texts that
\* are not JSON, JSON of another shape, an object that leaves fields out,
\* an entry for a.js that has the hash of its content and no lists, and a
\* representation written by another producer.
Documents ==
    {Str("version: 1"),
     Str("{\"version\":1,\"root_hash\":\"\",\"files\":{"),
     Str("[]"),
     Str("null"),
     Str("{}"),
     Str("{\"version\":\"1\",\"root_hash\":\"\",\"files\":{}}"),
     Str("{\"version\":1,\"root_hash\":\"\",\"files\":{\"a.js\":{\"hash\":\"")
        \o HashBytes(SrcA) \o Str("\"}}}"),
     Str("{\"files\": {\"k\\\"<.js\": {\"exports\": [\"b\", \"a\"], \"imports\": [\"\\u00e9\\n\"],")
        \o Str(" \"classes\": null, \"hash\": \"\"}, \"b.ts\": {\"functions\": []}},")
        \o Str(" \"root_hash\": \"r\", \"version\": 2}\n")}

\* The trees the behaviours start from: /w/a.js holds source, and
\* /w/.ai/ir.json is absent or holds one of the documents.
PersistTree(source) ==
    (<<>> :> Dir("rwx")) @@ (PathW :> Dir("rwx")) @@ (PathA :> File("rwx", source))
    @@ (PathAi :> Dir("rwx"))
PersistTrees ==
    {PersistTree(source) : source \in {SrcA, SrcU}}
    \cup {PersistTree(source) @@ (PathIR :> File("rwx", doc)) :
                source \in {SrcA, SrcU}, doc \in Documents}

\* The paths the caller saves to and loads from: the default one, the same
\* file by its relative path, and a file in a directory that does not
\* exist.
PersistPaths == {<<>>, DefaultIRPath, Str("/w/no/ir.json")}

PersistInit ==
    /\ fs \in PersistTrees
    /\ ops = 0
    /\ generator = NewGenerator(<<>>)
    /\ last = NoCall
    /\ prev = NoCall

\* ir.MarshalJSON() on the representation the last call left.
MarshalJSONCall ==
    /\ last.op # "none"
    /\ ~last.err
    /\ \E iter \in Orders(DOMAIN last.ir.Files) :
          last' = [op |-> "MarshalJSON", rootPath |-> <<>>, tree |-> fs, at |-> ops,
                   prior |-> NilIR, chained |-> TRUE, err |-> FALSE, ir |-> last.ir,
                   data |-> MarshalJSON(last.ir, iter)]
    /\ prev' = last
    /\ UNCHANGED <<fs, ops, generator>>

\* ir.Save(path) on the representation the last call left.
SaveCall(path) ==
    LET Returned(w) ==
            /\ fs' = w.fs
            /\ last' = [op |-> "Save", rootPath |-> path, tree |-> fs, at |-> ops,
                        prior |-> NilIR, chained |-> TRUE, err |-> w.err, ir |-> last.ir,
                        data |-> <<>>]
    IN  /\ last.op # "none"
        /\ ~last.err
        /\ \E iter \in Orders(DOMAIN last.ir.Files) : Returned(Save(last.ir, fs, path, iter))
        /\ prev' = last
        /\ UNCHANGED <<ops, generator>>

\* Load(path)
LoadCall(path) ==
    LET Returned(r) ==
            last' = [op |-> "Load", rootPath |-> path, tree |-> fs, at |-> ops,
                     prior |-> NilIR, chained |-> TRUE, err |-> r.err, ir |-> r.ir,
                     data |-> <<>>]
    IN  /\ Returned(Load(fs, path))
        /\ prev' = last
        /\ UNCHANGED <<fs, ops, generator>>

\* The roots of the calls: the project directory, and its directory .ai,
\* which is empty or holds ir.json alone.
PersistRoots == RootInputs \cup {Str("/w/.ai")}

PersistNext ==
    \/ \E rootPath \in PersistRoots : GenerateCall(rootPath)
    \/ \E rootPath \in PersistRoots : UpdateCall(rootPath, FALSE)
    \/ MarshalJSONCall
    \/ \E path \in PersistPaths : SaveCall(path)
    \/ \E path \in PersistPaths : LoadCall(path)

PersistSpec == PersistInit /\ [][PersistNext]_vars

----------------------------------------------------------------------------
(* Symbolic links *)

\* The path root/key names a symbolic link of tree or passes through one.
ThroughLink(tree, rootPath, key) ==
    LET Along(q) ==
            \E k \in 1..Len(q) :
                /\ SubSeq(q, 1, k) \in DOMAIN tree
                /\ tree[SubSeq(q, 1, k)].kind = "symlink"
    IN  Along(RootOf(rootPath) \o SplitByte(key, Slash[1]))

\* The links of LinkTree are in tree, and what they point to is there.
LinksResolve(tree) ==
    /\ {PathS, PathLn, PathA, PathE} \subseteq DOMAIN tree
    /\ tree[PathS].kind = "symlink"
    /\ tree[PathLn].kind = "symlink"
    /\ tree[PathLib].perm = "rwx"

\* C11: symbolic links are never followed: no key of a result of Generate or
\* Update names a symbolic link, and none names a file that is reached
\* through a symbolic link to a directory.
SymlinksAreNotFollowed ==
    (last.op \in {"Generate", "Update"} /\ ~last.err) =>
        \A key \in DOMAIN last.ir.Files : ~ThroughLink(last.tree, last.rootPath, key)

\* A call on a tree with a link to an eligible file and a link to a
\* directory that holds one: both targets are recorded under their own
\* paths.
WalkedPastLinks ==
    /\ last.op \in {"Generate", "Update"}
    /\ ~last.err
    /\ LinksResolve(last.tree)
    /\ {KeyOf(last.rootPath, PathA), KeyOf(last.rootPath, PathE)} \subseteq DOMAIN last.ir.Files

----------------------------------------------------------------------------
(* Names and root spellings: a project directory whose names hold a         *)
(* backslash and an accented letter, decomposed (NFD) or composed (NFC),    *)
(* and a caller that spells the root in several ways.                      *)

\* e with an acute accent, decomposed and composed.
AccentNFD == <<101, 204, 129>>
AccentNFC == <<195, 169>>

\* /w/k\z.js, and the accented directory /w/<dir>/ with the accented file
\* <file>.ts in it.
PathK == <<Str("w"), Str("k\\z.js")>>
TsName(accent) == accent \o Str(".ts")
AccentDir(dir) == <<Str("w"), dir>>
AccentFile(dir, file) == <<Str("w"), dir, TsName(file)>>

\* The tree the behaviours start from, its accented names decomposed:
\*   /w/k\z.js  /w/e'/e'.ts  /w/lib/e.ts
NameTree ==
    (<<>> :> Dir("rwx")) @@ (PathW :> Dir("rwx"))
    @@ (PathK :> File("rwx", SrcA))
    @@ (AccentDir(AccentNFD) :> Dir("rwx"))
    @@ (AccentFile(AccentNFD, AccentNFD) :> File("rwx", SrcA))
    @@ (PathLib :> Dir("rwx")) @@ (PathE :> File("rwx", SrcB))

\* The ways the caller spells the root /w, and the root /w/lib.
RootSpellings ==
    {Str("/w"), Str("/w/"), Str("."), Str("/w/lib/.."), Str("./lib/../"), Str("lib")}

\* The renamings between the two forms of a name, of the directory and of
\* the file in it.
RenameInputs ==
    {<<AccentDir(AccentNFD), AccentDir(AccentNFC)>>,
     <<AccentDir(AccentNFC), AccentDir(AccentNFD)>>}
    \cup UNION {{<<AccentFile(dir, AccentNFD), AccentFile(dir, AccentNFC)>>,
                 <<AccentFile(dir, AccentNFC), AccentFile(dir, AccentNFD)>>} :
                    dir \in {AccentNFD, AccentNFC}}

NameInit ==
    /\ fs = NameTree
    /\ ops = 0
    /\ generator = NewGenerator(<<>>)
    /\ last = NoCall
    /\ prev = NoCall

\* os.Rename(oldpath, newpath): the node and everything below it.
Rename(old, new) ==
    LET Moved(q) ==
            IF Len(q) >= Len(old) /\ SubSeq(q, 1, Len(old)) = old
            THEN new \o SubSeq(q, Len(old) + 1, Len(q))
            ELSE q
        Back(q) ==
            IF Len(q) >= Len(new) /\ SubSeq(q, 1, Len(new)) = new
            THEN old \o SubSeq(q, Len(new) + 1, Len(q))
            ELSE q
    IN  /\ ops < MaxFsOps
        /\ old \in DOMAIN fs
        /\ new \notin DOMAIN fs
        /\ fs' = [q \in {Moved(r) : r \in DOMAIN fs} |-> fs[Back(q)]]
        /\ ops' = ops + 1
        /\ UNCHANGED <<generator, last, prev>>

\* A file next to the decomposed one whose name is the same letter,
\* composed.
SiblingWrites == {<<AccentFile(AccentNFD, AccentNFC), SrcB>>}

NameNext ==
    \/ \E rootPath \in RootSpellings : GenerateCall(rootPath)
    \/ \E r \in RenameInputs : Rename(r[1], r[2])
    \/ \E w \in SiblingWrites : WriteFile(w[1], w[2])

NameSpec == NameInit /\ [][NameNext]_vars

\* The names of the path q below the root, each in NFC.
NamesBelow(rootPath, q) ==
    LET Below(root) == [i \in 1..(Len(q) - Len(root)) |-> NFC(q[Len(root) + i])]
    IN  Below(RootOf(rootPath))

\* Some byte of key is a backslash.
HasBackslash(key) == \E i \in 1..Len(key) : key[i] = Backslash[1]

SameDirectory(r1, r2) ==
    LET Both(d1, d2) == ~d1.err /\ ~d2.err /\ d1.elems = d2.elems
    IN  Both(Lookup(r1.tree, r1.rootPath, TRUE), Lookup(r2.tree, r2.rootPath, TRUE))

\* The tree with every name in NFC.
NormalizedTree(tree) ==
    {<<[i \in 1..Len(q) |-> NFC(q[i])], tree[q]>> : q \in DOMAIN tree}

\* C13: when two trees are the same except that names are decomposed in
\* one and composed in the other, Generate returns for both the same keys,
\* the same entries and the same root hash, and the same JSON bytes; every
\* key is in NFC.
UnicodeFormIsIrrelevant ==
    (/\ prev.op = "Generate"
     /\ last.op = "Generate"
     /\ SameDirectory(prev, last)
     /\ NormalizedTree(prev.tree) = NormalizedTree(last.tree)) =>
        /\ SameOutcome(prev, last)
        /\ \A key \in DOMAIN last.ir.Files : NFC(key) = key

\* Generate ran on a tree with decomposed names and on the tree with the
\* same names composed, and recorded the accented file.
GeneratedBothForms ==
    /\ prev.op = "Generate"
    /\ last.op = "Generate"
    /\ SameDirectory(prev, last)
    /\ AccentFile(AccentNFD, AccentNFD) \in DOMAIN prev.tree
    /\ AccentFile(AccentNFC, AccentNFC) \in DOMAIN last.tree
    /\ NormalizedTree(prev.tree) = NormalizedTree(last.tree)
    /\ \E key \in DOMAIN last.ir.Files : HasPrefix(key, AccentNFC)

\* C14: the result of Generate does not depend on how the root is spelled:
\* two calls that name the same directory of the same tree return the same
\* keys, entries and root hash and the same JSON bytes, and the keys are
\* the paths of the eligible files relative to the root.
RootSpellingIsIrrelevant ==
    (/\ prev.op = "Generate"
     /\ last.op = "Generate"
     /\ prev.tree = last.tree
     /\ SameDirectory(prev, last)) =>
        /\ SameOutcome(prev, last)
        /\ DOMAIN last.ir.Files =
               {JoinStrings(NamesBelow(last.rootPath, q), Slash) :
                    q \in EligibleFiles(generator, last.tree, last.rootPath)}

\* Generate ran on the same directory spelled as an absolute path and as a
\* relative path with ".." in it.
GeneratedUnderTwoSpellings ==
    /\ prev.op = "Generate"
    /\ last.op = "Generate"
    /\ prev.tree = last.tree
    /\ SameDirectory(prev, last)
    /\ IsAbs(prev.rootPath)
    /\ ~IsAbs(last.rootPath)
    /\ \E i \in 1..Len(Elements(last.rootPath)) : Elements(last.rootPath)[i] = DotDot
    /\ Cardinality(DOMAIN last.ir.Files) >= 3

----------------------------------------------------------------------------
(* Serialization and persistence *)

\* The keys of the members of a JSON object, in document order.
MemberNames(v) == [i \in 1..Len(v.m) |-> v.m[i].k]

\* The member names of the document and of an entry.
DocumentNames == <<JSONText.version, JSONText.root_hash, JSONText.files>>
FieldNames ==
    <<JSONText.hash, JSONText.imports, JSONText.functions, JSONText.classes, JSONText.exports>>

\* The JSON value doc is a document of the format for ir: the members
\* version, root_hash and files in this order, the keys of files in
\* ascending order, and in every entry the five fields in their order.
WellOrdered(doc, ir) ==
    /\ doc.ok
    /\ doc.v.t = "obj"
    /\ MemberNames(doc.v) = DocumentNames
    /\ doc.v.m[3].v.t = "obj"
    /\ MemberNames(doc.v.m[3].v) = Ascending(DOMAIN ir.Files)
    /\ \A i \in 1..Len(doc.v.m[3].v.m) :
          /\ doc.v.m[3].v.m[i].v.t = "obj"
          /\ MemberNames(doc.v.m[3].v.m[i].v) = FieldNames
    /\ \A i \in 1..Len(doc.v.m[3].v.m), j \in 1..Len(doc.v.m[3].v.m) :
          i < j => StrLess(doc.v.m[3].v.m[i].k, doc.v.m[3].v.m[j].k)

\* C15: the output of MarshalJSON has the members version, root_hash and
\* files in this order, the keys of files in strictly ascending order
\* whatever order the map yields them in, and the fields of every entry in
\* the order hash, imports, functions, classes, exports; the bytes are the
\* same for every order of the map, and the same when the representation
\* is serialized again.
SerializationIsOrdered ==
    (last.op = "MarshalJSON") =>
        /\ WellOrdered(ParseDocument(last.data), last.ir)
        /\ \A iter \in Orders(DOMAIN last.ir.Files) : MarshalJSON(last.ir, iter) = last.data
        /\ (prev.op = "MarshalJSON" /\ prev.ir = last.ir) => prev.data = last.data

\* A representation with two keys, loaded from a document that has them in
\* descending order, was serialized twice.
SerializedTwoKeysTwice ==
    /\ last.op = "MarshalJSON"
    /\ prev.op = "MarshalJSON"
    /\ prev.ir = last.ir
    /\ Cardinality(DOMAIN last.ir.Files) = 2

\* The file that Save(path) writes.
SavedPath(path) == IF path = <<>> THEN DefaultIRPath ELSE path

\* The last call loaded the file that the call before it saved.
LoadedWhatWasSaved ==
    LET Same(written, read) == ~read.err /\ written.elems = read.elems
    IN  /\ prev.op = "Save"
        /\ ~prev.err
        /\ last.op = "Load"
        /\ Same(Lookup(last.tree, SavedPath(prev.rootPath), TRUE),
                Lookup(last.tree, last.rootPath, TRUE))

\* C16: Save followed by Load is a round trip: Load succeeds, and the
\* loaded representation has the version, the root hash, the keys and, for
\* every key, the hash and the four lists of the saved one, and the same
\* JSON bytes.
SaveLoadIsRoundTrip ==
    LoadedWhatWasSaved =>
        /\ ~last.err
        /\ last.ir.Version = prev.ir.Version
        /\ SameFields(prev, last)
        /\ SameBytes(prev.ir, last.ir)

\* A representation whose import list holds a byte that is no UTF-8 was
\* saved and loaded, and the loaded list is another one.
RoundTripChangedImport ==
    /\ LoadedWhatWasSaved
    /\ ~last.err
    /\ KeyA \in DOMAIN prev.ir.Files
    /\ KeyA \in DOMAIN last.ir.Files
    /\ prev.ir.Files[KeyA].Imports # last.ir.Files[KeyA].Imports
    /\ last.ir.Files[KeyA].Hash = prev.ir.Files[KeyA].Hash

----------------------------------------------------------------------------
(* The extractor on its own: two source texts are chosen at the start, and *)
(* each is parsed in turn.                                                 *)

\* Source texts that declare a symbol more than once, out of order, and by
\* more than one pattern of its category.
SrcSorting == Str("function z(){}\nfunction a(){}\nclass Z{}\nclass A{}\nexport { z, a }")
SrcDedup == Str("function foo(){}\nfunction foo(){}\nclass Bar{}\nclass Bar{}")
SrcApart == Str("function f(){}\nfunction a(){}\nfunction f(){}")
SrcPatterns == Str("const f=()=>1\nfunction f(){}\nconst f=function(){}")
SrcImports == Str("import 'b'\nconst a=require('a')\nimport b from 'b'")
SrcExports == Str("export { f, f as g }\nexport function f(){}\nexport default f")
SrcCase == Str("class b{}\nclass B{}\nclass a{}\nclass B{}")
SrcPrefix == Str("function ab(){}\nfunction a(){}\nfunction ab(){}")
\* Declarations inside the body of a function and of a class.
SrcNested == Str("function outer(){\n  function inner(){}\n}")
SrcNestedClass == Str("class Outer{\n  m(){ class Inner{} }\n}")
\* Default exports of an identifier and of expressions.
SrcDefaultName == Str("const f=1\nexport default f")
SrcDefaultNew == Str("export default new Foo()")
SrcDefaultLiteral == Str("export default 42")
SrcDefaultClass == Str("export default class Foo{}")
SrcDefaultFunction == Str("export default function(){}")
ParseInputs ==
    {<<>>, SrcA, SrcC, SrcU, SrcSorting, SrcDedup, SrcApart, SrcPatterns,
     SrcImports, SrcExports, SrcCase, SrcPrefix, SrcNested, SrcNestedClass,
     SrcDefaultName, SrcDefaultNew, SrcDefaultLiteral, SrcDefaultClass,
     SrcDefaultFunction}

\* A source text that has not been parsed yet, with the zero FileStructure.
Unparsed(source) ==
    [op |-> "source", rootPath |-> <<>>, tree |-> <<>>, at |-> 0, prior |-> NilIR,
     chained |-> TRUE, data |-> source, err |-> FALSE,
     ir |-> [Imports |-> <<>>, Functions |-> <<>>, Classes |-> <<>>, Exports |-> <<>>]]

ParseInit ==
    /\ fs = InitTree
    /\ ops = 0
    /\ generator = NewGenerator(<<>>)
    /\ last \in {Unparsed(source) : source \in ParseInputs}
    /\ prev \in {Unparsed(source) : source \in ParseInputs}

\* fs, err := p.Parse(source), on the earlier of the two texts, which then
\* becomes the latest.
ParseCall ==
    /\ prev.op = "source"
    /\ last' = [prev EXCEPT !.op = "Parse", !.ir = Parse(prev.data)]
    /\ prev' = last
    /\ UNCHANGED <<fs, ops, generator>>

ParseNext == ParseCall

ParseSpec == ParseInit /\ [][ParseNext]_vars

\* The list is strictly ascending in the order of sort.Strings.
StrictlyAscending(list) == \A i \in 1..(Len(list) - 1) : StrLess(list[i], list[i + 1])

\* The lists of a FileStructure or of a FileIR.
ListsOf(entry) == {entry.Imports, entry.Functions, entry.Classes, entry.Exports}

\* C17: every list the extractor returns is strictly ascending (sorted, no
\* duplicates), however often and by whichever pattern a symbol was matched;
\* two declarations of foo and of Bar give functions [foo] and classes [Bar].
ExtractedListsAreStrictlyAscending ==
    last.op = "Parse" =>
        /\ \A list \in ListsOf(last.ir) : StrictlyAscending(list)
        /\ last.data = SrcDedup =>
               last.ir.Functions = <<Str("foo")>> /\ last.ir.Classes = <<Str("Bar")>>

\* A text with the same symbol declared twice, another declaration between
\* the two, has been parsed, and so has one that names a symbol by three
\* patterns.
ParsedRepeatedSymbols ==
    /\ last.op = "Parse" /\ last.data = SrcApart
    /\ last.ir.Functions = <<Str("a"), Str("f")>>
    /\ prev.op = "Parse" /\ prev.data = SrcPatterns
    /\ prev.ir.Functions = <<Str("f")>>

----------------------------------------------------------------------------
(* Lists that are nil, and what Load accepts *)

\* Some list of some entry of ir is a nil slice.
HasNilList(ir) == \E k \in DOMAIN ir.Files : NilSlice \in ListsOf(ir.Files[k])

\* A member of a serialized entry whose value is null.
NullMember == JSONText.memberSep \o JSONText.null

\* The latest call is an Update whose prior is what the Load before it
\* returned.
UpdateOfLoaded ==
    /\ last.op = "Update"
    /\ prev.op = "Load"
    /\ ~prev.err
    /\ last.prior = prev.ir

\* C18: no list of an entry is nil in a representation returned by Generate,
\* by Load, or by Update from a prior that Load returned, and serializing
\* such a representation writes no list as null.
ListsAreNeverNil ==
    /\ last.op \in {"Generate", "Load"} /\ ~last.err => ~HasNilList(last.ir)
    /\ UpdateOfLoaded /\ ~last.err => ~HasNilList(last.ir)
    /\ last.op = "MarshalJSON" /\ prev.op \in {"Generate", "Load", "Update"} =>
           Index(last.data, NullMember) = 0

\* Update reused the entry of a.js, whose lists Load had left nil.
UpdateReusedNilLists ==
    /\ UpdateOfLoaded
    /\ ~last.err
    /\ KeyA \in DOMAIN last.ir.Files
    /\ last.ir.Files[KeyA] = [ZeroFileIR EXCEPT !.Hash = HashBytes(SrcA)]
    /\ last.prior.Files[KeyA] = last.ir.Files[KeyA]

\* The member of the JSON object v whose key is name has the type t.
HasMember(v, name, t) == \E i \in 1..Len(v.m) : v.m[i].k = name /\ v.m[i].v.t = t

\* data is a JSON object with a number for version, a string for root_hash
\* and an object for files.
HasDocumentShape(data) ==
    LET Shaped(doc) ==
            /\ doc.ok
            /\ doc.v.t = "obj"
            /\ HasMember(doc.v, JSONText.version, "num")
            /\ HasMember(doc.v, JSONText.root_hash, "str")
            /\ HasMember(doc.v, JSONText.files, "obj")
    IN  Shaped(ParseDocument(data))

\* The content of the file Load was called on is of the shape of the format.
LoadedFileIsShaped ==
    LET Content(f) == ~f.err /\ HasDocumentShape(f.data)
    IN  Content(ReadFile(last.tree, last.rootPath))

\* C19: Load returns an error and no representation when the file cannot be
\* read or its content is not a JSON object of the version / root_hash /
\* files shape, a representation only when it is, and leaves the file system
\* as it was.
LoadRejectsOtherContent ==
    last.op = "Load" =>
        /\ last.err <=> ~LoadedFileIsShaped
        /\ last.err => last.ir = NilIR
        /\ fs = last.tree

\* Load was called on a file that holds {} and returned a representation.
LoadedEmptyObject ==
    /\ last.op = "Load"
    /\ ~last.err
    /\ ReadFile(last.tree, last.rootPath) = [err |-> FALSE, data |-> JSONText.emptyObject]
    /\ last.ir = NilIR

\* What does hold of Load: it fails when the file cannot be read, when its
\* content is not one JSON value and when the value is neither null nor an
\* object, and it leaves the file system as it was.
LoadRejectsUnreadableAndMalformed ==
    LET Rejected(f, doc) == f.err \/ ~doc.ok \/ doc.v.t \notin {"obj", "null"}
        Content(f) == Rejected(f, IF f.err THEN NoValue ELSE ParseDocument(f.data))
    IN  last.op = "Load" =>
            /\ Content(ReadFile(last.tree, last.rootPath)) => last.err /\ last.ir = NilIR
            /\ fs = last.tree

----------------------------------------------------------------------------
(* Update and the keys of its prior *)

\* The keys of the prior representation of the latest call that name no
\* eligible file of the tree it ran on.
GoneKeys == (DOMAIN last.prior.Files) \ EligibleKeys(generator, last.tree, last.rootPath)

\* The eligible files of the tree of the latest call that the prior
\* representation does not have.
NewKeys == EligibleKeys(generator, last.tree, last.rootPath) \ (DOMAIN last.prior.Files)

\* C20: the keys of what Update returns are the canonical paths of the
\* eligible files on disk that can be read, whatever keys the prior has: a
\* key of the prior that names no such file is dropped, and a file the prior
\* does not have is recorded.
UpdateKeysAreTheFilesOnDisk ==
    last.op = "Update" /\ ~last.err =>
        /\ GoneKeys \cap (DOMAIN last.ir.Files) = {}
        /\ NewKeys \subseteq DOMAIN last.ir.Files
        /\ (DOMAIN last.ir.Files) \ (DOMAIN last.prior.Files) = NewKeys
        /\ (DOMAIN last.ir.Files) \cap (DOMAIN last.prior.Files)
               = (DOMAIN last.prior.Files) \ GoneKeys

\* An Update after a file of the prior was removed from disk and another
\* file was created: the one is dropped, the other recorded.
UpdateDroppedAndAdded ==
    /\ last.op = "Update"
    /\ ~last.err
    /\ \E k \in GoneKeys : \A q \in DOMAIN last.tree : KeyOf(last.rootPath, q) # k
    /\ NewKeys # {}
    /\ DOMAIN last.ir.Files # {}

----------------------------------------------------------------------------
(* The version and the root hash of a result *)

\* No path of tree lies below the root of the latest call, which is a
\* directory.
RootIsEmptyDirectory ==
    LET Empty(root) ==
            /\ root \in DOMAIN last.tree
            /\ last.tree[root].kind = "dir"
            /\ \A q \in DOMAIN last.tree :
                  ~(Len(q) > Len(root) /\ SubSeq(q, 1, Len(root)) = root)
    IN  Empty(RootOf(last.rootPath))

\* The prior of the latest call has another version than 1 and a root hash
\* that is not the one of its files.
PriorIsInconsistent ==
    /\ last.prior.Version # 1
    /\ \A iter \in Orders(DOMAIN last.prior.Files) :
          last.prior.RootHash # ComputeRootHash(last.prior.Files, iter)

\* C21: what Generate and Update return has version 1 and the root hash of
\* its own files, whatever version and root hash the prior carried; for an
\* empty directory it has no files and the hash of no bytes.
ResultHasVersionAndOwnRootHash ==
    last.op \in {"Generate", "Update"} /\ ~last.err =>
        /\ last.ir.Version = 1
        /\ \A iter \in Orders(DOMAIN last.ir.Files) :
              last.ir.RootHash = ComputeRootHash(last.ir.Files, iter)
        /\ RootIsEmptyDirectory =>
              DOMAIN last.ir.Files = {} /\ last.ir.RootHash = HashBytes(<<>>)

\* An Update on a prior with version 2 and a root hash that is not the one
\* of its two files returned one file.
UpdatedInconsistentPrior ==
    /\ last.op = "Update"
    /\ ~last.err
    /\ PriorIsInconsistent
    /\ last.prior.Version = 2
    /\ Cardinality(DOMAIN last.prior.Files) = 2
    /\ DOMAIN last.ir.Files = {KeyA}

\* Generate ran on an empty directory.
GeneratedEmptyDirectory ==
    last.op = "Generate" /\ ~last.err /\ RootIsEmptyDirectory

----------------------------------------------------------------------------
(* Declarations in nested scopes, and default exports *)

\* The bytes of source at brace depth zero, the braces of the outermost
\* bodies included.
DepthZeroText(source) ==
    LET open == Str("{")[1]
        close == Str("}")[1]
        Depth(i) == Cardinality({j \in 1..(i - 1) : source[j] = open})
                        - Cardinality({j \in 1..(i - 1) : source[j] = close})
        kept == {i \in 1..Len(source) :
                    \/ Depth(i) = 0
                    \/ Depth(i) = 1 /\ source[i] = close}
        Nth(k) == CHOOSE i \in kept : Cardinality({j \in kept : j < i}) = k - 1
    IN  [k \in 1..Cardinality(kept) |-> source[Nth(k)]]

\* The members of a list.
Members(list) == {list[i] : i \in 1..Len(list)}

\* C22: the functions and the classes Parse reports are declared at brace
\* depth zero; a declaration inside the body of a function or of a class is
\* not reported.
NestedDeclarationsAreNotReported ==
    last.op = "Parse" =>
        /\ Members(last.ir.Functions) \subseteq Members(Parse(DepthZeroText(last.data)).Functions)
        /\ Members(last.ir.Classes) \subseteq Members(Parse(DepthZeroText(last.data)).Classes)

\* Parse reported the function declared inside the body of another.
ParsedNestedFunction ==
    /\ last.op = "Parse" /\ last.data = SrcNested
    /\ last.ir.Functions = <<Str("inner"), Str("outer")>>

\* The texts whose default export is an expression.
DefaultExpressions == {SrcDefaultNew, SrcDefaultLiteral, SrcDefaultClass, SrcDefaultFunction}

\* C23: a default export adds a name to the exports when its operand is an
\* identifier, and none when its operand is a new expression, a literal, or
\* an inline class or function.
DefaultExportOfExpressionAddsNoName ==
    last.op = "Parse" =>
        /\ last.data = SrcDefaultName => last.ir.Exports = <<Str("f")>>
        /\ last.data \in DefaultExpressions => last.ir.Exports = <<>>

\* Parse reported the keyword of a default export as an exported name.
ParsedDefaultNew ==
    /\ last.op = "Parse" /\ last.data = SrcDefaultNew
    /\ last.ir.Exports = <<Str("new")>>

----------------------------------------------------------------------------
(* Calls in progress.  Two callers use the same Generator; each call runs *)
(* as a sequence of steps, one per entry the walk visits and one per read *)
(* of a file, and the steps of the two calls and the writes of another    *)
(* process interleave.  last holds the call of the first caller, prev the *)
(* call of the second.                                                    *)

MaxCalls == 2

PathNo == <<Str("w"), Str("no")>>
PathN == <<Str("w"), Str("no"), Str("n.js")>>
PathG == <<Str("w"), Str(".git"), Str("g.js")>>

\* A project with a symbolic link to its own directory, a directory that
\* cannot be read, and an ignored directory.
StepTree ==
    (<<>> :> Dir("rwx")) @@ (PathW :> Dir("rwx"))
    @@ (PathA :> File("rwx", SrcA))
    @@ (PathLib :> Dir("rwx")) @@ (PathE :> File("rwx", SrcB))
    @@ (PathLn :> Symlink(Str("/w")))
    @@ (PathNo :> Dir("---")) @@ (PathN :> File("rwx", SrcA))
    @@ (<<Str("w"), Str(".git")>> :> Dir("rwx")) @@ (PathG :> File("rwx", SrcA))

StepRoots == {Str("/w")}
StepWrites == {<<PathA, SrcC>>}

\* A caller that has made no call.
Idle ==
    [op |-> "none", pc |-> "idle", calls |-> 0, rootPath |-> <<>>, absRoot |-> <<>>,
     g |-> <<>>, tree |-> <<>>, at |-> 0, until |-> 0, prior |-> NilIR,
     existingIR |-> NilIR, files |-> NoFiles, stack |-> <<>>, path |-> <<>>,
     rel |-> [err |-> FALSE, path |-> <<>>], key |-> <<>>, content |-> <<>>,
     visits |-> <<>>, failed |-> {}, retried |-> FALSE, overlapped |-> FALSE,
     ret |-> "nil", err |-> FALSE, ir |-> NilIR, returned |-> NilIR,
     then |-> "none", data |-> <<>>]

\* The fields of the Generator after a step of a call: no method assigns
\* to them.
AfterStepMarking(g, c) == [g EXCEPT !.ignoredPaths = @ \cup {Str("lib")}]

AfterStep(g, c) == g

\* The FileIR that parseFile returns.
FileIROf(hash, structure) ==
    [Hash      |-> hash,
     Imports   |-> SortStrings(structure.Imports),
     Functions |-> SortStrings(structure.Functions),
     Classes   |-> SortStrings(structure.Classes),
     Exports   |-> SortStrings(structure.Exports)]

\* The frames of filepath.walk without those whose names are used up.
RECURSIVE Unwind(_)
Unwind(stack) ==
    IF stack = <<>> THEN stack
    ELSE IF stack[Len(stack)].i > Len(stack[Len(stack)].names)
         THEN Unwind(SubSeq(stack, 1, Len(stack) - 1))
    ELSE stack

\* The walk function returned nil: the walk goes on with the next name, or
\* returns when there is none.
Continue(c) ==
    [c EXCEPT !.stack = Unwind(c.stack),
              !.pc = IF Unwind(c.stack) = <<>> THEN "return" ELSE "walk"]

\* An I/O operation on path that failed or not.
Attempted(c, path, failure) ==
    [c EXCEPT !.retried = @ \/ path \in c.failed,
              !.failed = IF failure THEN @ \cup {path} ELSE @]

\* A walk that goes back to an entry that could not be read.
ReturnedRetrying(c, kind, ret) ==
    IF c.path \in c.failed /\ c.stack # <<>>
    THEN [c EXCEPT !.stack[Len(c.stack)].i = @ - 1, !.pc = "walk"]
    ELSE Continue(c)

\* What filepath.walk does with the value the walk function returned for
\* an entry: kind is "error" when lstat failed, "dir" or "file".
Returned(c, kind, ret) ==
    IF ret = "nil" \/ (ret = "SkipDir" /\ kind # "file") THEN Continue(c)
    ELSE IF ret = "SkipDir"
         THEN Continue([c EXCEPT !.stack = SubSeq(@, 1, Len(@) - 1)])
    ELSE [c EXCEPT !.stack = <<>>, !.pc = "return", !.ret = ret]

\* One more visit of path, counted up to two.
Counted(visits, path) ==
    [q \in (DOMAIN visits) \cup {path} |->
        IF q # path THEN visits[q]
        ELSE IF path \in DOMAIN visits THEN 2 ELSE 1]

\* lstat of an entry, the names of a directory, and the walk function up
\* to its first read of a file.
Visit(c, g, fsys, filename) ==
    LET seen == [c EXCEPT !.visits = Counted(@, filename), !.path = filename]
        Listed(info, dir) ==
            IF dir.err \/ SkipReturn(g, info, dir.err, filename) # "nil"
            THEN Returned(Attempted(seen, filename, dir.err), "dir",
                          SkipReturn(g, info, dir.err, filename))
            ELSE Continue([Attempted(seen, filename, FALSE) EXCEPT
                              !.stack = Append(@, [path |-> filename, names |-> dir.names,
                                                   i |-> 1])])
        Related(rel) ==
            IF c.op = "Update" /\ rel.err THEN Continue(seen)
            ELSE [seen EXCEPT !.rel = rel,
                              !.key = IF rel.err THEN <<>> ELSE normalizePath(rel.path),
                              !.pc = IF c.op = "Update" THEN "hash" ELSE "read"]
        Found(info) ==
            IF info.err
            THEN Returned(Attempted(seen, filename, TRUE), "error",
                          SkipReturn(g, info, TRUE, filename))
            ELSE IF info.isDir THEN Listed(info, readDirNames(fsys, filename))
            ELSE IF ~Eligible(info, FALSE, filename)
                 THEN Returned(Attempted(seen, filename, FALSE), "file",
                               SkipReturn(g, info, FALSE, filename))
            ELSE Related(Rel(c.absRoot, filename))
    IN  Found(Lstat(fsys, filename))

\* The call as it begins: the absolute root and an empty map.
Started(c, op, g, fsys, at, rootPath, existingIR) ==
    [Idle EXCEPT !.op = op, !.calls = c.calls + 1, !.rootPath = rootPath,
                 !.absRoot = Clean(Abs(rootPath)), !.g = g, !.tree = fsys,
                 !.at = at, !.prior = existingIR, !.existingIR = existingIR]

\* An Update that moves the entry it reuses out of the prior.
HashStepTaking(c, fsys) ==
    LET Without(files, key) == [k \in (DOMAIN files) \ {key} |-> files[k]]
        Compared(hash) ==
            IF hash.err THEN Continue(Attempted(c, c.path, TRUE))
            ELSE IF /\ c.key \in DOMAIN c.existingIR.Files
                    /\ c.existingIR.Files[c.key].Hash = hash.hash
                 THEN Continue([Attempted(c, c.path, FALSE) EXCEPT
                                   !.files = Put(@, c.key, c.existingIR.Files[c.key]),
                                   !.existingIR.Files = Without(@, c.key)])
            ELSE [Attempted(c, c.path, FALSE) EXCEPT !.pc = "read"]
    IN  Compared(HashFile(fsys, c.path))

\* currentHash, err := HashFile(path) in Update, and the comparison with
\* the entry of the prior.
HashStep(c, fsys) ==
    LET Compared(hash) ==
            IF hash.err THEN Continue(Attempted(c, c.path, TRUE))
            ELSE IF /\ c.key \in DOMAIN c.existingIR.Files
                    /\ c.existingIR.Files[c.key].Hash = hash.hash
                 THEN Continue([Attempted(c, c.path, FALSE) EXCEPT
                                   !.files = Put(@, c.key, c.existingIR.Files[c.key])])
            ELSE [Attempted(c, c.path, FALSE) EXCEPT !.pc = "read"]
    IN  Compared(HashFile(fsys, c.path))

\* content, err := os.ReadFile(path) in parseFile
ReadStep(c, fsys) ==
    LET Got(content) ==
            IF content.err THEN Continue(Attempted(c, c.path, TRUE))
            ELSE [Attempted(c, c.path, FALSE) EXCEPT !.content = content.data,
                                                     !.pc = "rehash"]
    IN  Got(ReadFile(fsys, c.path))

\* hash, err := HashFile(path) in parseFile, Parse, and the assignment to
\* the map.
RehashStep(c, g, fsys) ==
    LET Built(hash) ==
            IF hash.err THEN Continue(Attempted(c, c.path, TRUE))
            ELSE IF c.rel.err THEN Continue(Attempted(c, c.path, FALSE))
            ELSE Continue([Attempted(c, c.path, FALSE) EXCEPT
                              !.files = Put(@, c.key,
                                            FileIROf(hash.hash, g.parser[c.content]))])
    IN  Built(HashFile(fsys, c.path))

\* The call of caller n, and the assignment of its next state; overlapped
\* records that the call took a step while the call of the other caller was
\* in progress.
Held(n) == IF n = 1 THEN last ELSE prev

Running(c) == c.pc \notin {"idle", "done"}

Hold(n, c) ==
    /\ last' = IF n = 1 THEN [c EXCEPT !.overlapped = @ \/ Running(prev)] ELSE last
    /\ prev' = IF n = 1 THEN prev ELSE [c EXCEPT !.overlapped = @ \/ Running(last)]
    /\ generator' = AfterStep(generator, c)
    /\ UNCHANGED <<fs, ops>>

\* Caller n calls Generate(rootPath); the walk visits the root.
BeginGenerate(n, rootPath) ==
    /\ Held(n).pc \in {"idle", "done"}
    /\ last.calls + prev.calls < MaxCalls
    /\ Hold(n, Visit(Started(Held(n), "Generate", generator, fs, ops, rootPath, NilIR),
                     generator, fs, Clean(Abs(rootPath))))

\* The representation of the project that an earlier call of Generate
\* returned.
StepPrior ==
    [Version |-> 1,
     RootHash |-> ComputeRootHash(GenerateFiles(NewGenerator(<<>>), StepTree, Str("/w")).files,
                                  <<Str("a.js"), Str("lib/e.ts")>>),
     Files |-> GenerateFiles(NewGenerator(<<>>), StepTree, Str("/w")).files]

\* The representations a caller can hand to Update: the one that the latest
\* call of caller 1 or 2 returned, or the earlier one.
Priors ==
    {StepPrior} \cup {Held(from).ir : from \in {m \in {1, 2} : Held(m).pc = "done" /\ ~Held(m).err}}

\* Caller n calls Update(existingIR, rootPath).
BeginUpdate(n, rootPath, existingIR) ==
    /\ Held(n).pc \in {"idle", "done"}
    /\ last.calls + prev.calls < MaxCalls
    /\ Hold(n, Visit(Started(Held(n), "Update", generator, fs, ops, rootPath, existingIR),
                     generator, fs, Clean(Abs(rootPath))))

\* The walk of caller n visits the next name of the directory it is in.
WalkStep(n) ==
    LET Entry(c, top) ==
            Visit([c EXCEPT !.stack[Len(c.stack)].i = @ + 1], generator, fs,
                  Join(top.path, top.names[top.i]))
    IN  /\ Held(n).pc = "walk"
        /\ Hold(n, Entry(Held(n), Held(n).stack[Len(Held(n).stack)]))

\* The reads of caller n.
HashCall(n) == Held(n).pc = "hash" /\ Hold(n, HashStep(Held(n), fs))

ReadCall(n) == Held(n).pc = "read" /\ Hold(n, ReadStep(Held(n), fs))

RehashCall(n) == Held(n).pc = "rehash" /\ Hold(n, RehashStep(Held(n), generator, fs))

\* The call of caller n computes the root hash and returns; its local
\* variables are gone.
ReturnCall(n) ==
    LET Done(c, r) ==
            Hold(n, [c EXCEPT !.pc = "done", !.err = r.err, !.ir = r.ir,
                              !.returned = r.ir, !.until = ops,
                              !.files = NoFiles, !.path = <<>>, !.key = <<>>,
                              !.rel = Idle.rel, !.content = <<>>])
    IN  /\ Held(n).pc = "return"
        /\ \E iter \in Orders(DOMAIN Held(n).files) :
              Done(Held(n), Finish([ret |-> Held(n).ret, files |-> Held(n).files], iter))

\* A step of caller n.
CallStep(n) ==
    \/ \E rootPath \in StepRoots : BeginGenerate(n, rootPath)
    \/ \E rootPath \in StepRoots, existingIR \in Priors : BeginUpdate(n, rootPath, existingIR)
    \/ WalkStep(n)
    \/ HashCall(n)
    \/ ReadCall(n)
    \/ RehashCall(n)
    \/ ReturnCall(n)

\* A step of caller n when its call is in progress.
Progress(n) ==
    WalkStep(n) \/ HashCall(n) \/ ReadCall(n) \/ RehashCall(n) \/ ReturnCall(n)

StepInit ==
    /\ fs = StepTree
    /\ ops = 0
    /\ generator \in {NewGenerator(config) : config \in Configs}
    /\ last = Idle
    /\ prev = Idle

StepNext ==
    \/ \E n \in {1, 2} : CallStep(n)
    \/ \E w \in StepWrites : WriteFile(w[1], w[2])

StepSpec == StepInit /\ [][StepNext]_vars

\* The Go scheduler runs every goroutine that can run: a call in progress
\* takes its next step.  This is weak fairness of Progress(n), with the
\* enabledness of the step written as Running: a call in progress always has
\* a next step (Ready below).
Fair(n) == []<>(~Running(Held(n))) \/ []<><<Progress(n)>>_vars

StepFairSpec == StepSpec /\ Fair(1) /\ Fair(2)

----------------------------------------------------------------------------
(* Concurrent calls *)

\* What the call c returns when it runs alone on the tree it began on.
Alone(c) ==
    IF c.op = "Generate" THEN GenerateFiles(c.g, c.tree, c.rootPath)
    ELSE UpdateFiles(c.g, c.tree, c.prior, c.rootPath)

\* The call c returned what the walk w of the call alone returns.
ReturnedAs(c, w) ==
    /\ c.err = (w.ret # "nil")
    /\ ~c.err =>
          /\ c.ir.Version = 1
          /\ c.ir.Files = w.files
          /\ \A iter \in Orders(DOMAIN w.files) :
                c.ir.RootHash = ComputeRootHash(w.files, iter)

\* The call c has returned, and no file was written while it ran.
ReturnedOnFixedTree(c) == c.pc = "done" /\ c.at = c.until

\* C24: a call of Generate or Update whose steps interleave with those of
\* another call on the same Generator returns what it returns when it runs
\* alone on the same tree: the calls share no state that a call writes.
ConcurrentCallsReturnAsAlone ==
    /\ \A n \in {1, 2} : ReturnedOnFixedTree(Held(n)) => ReturnedAs(Held(n), Alone(Held(n)))
    /\ generator.ignoredPaths \in {NewGenerator(config).ignoredPaths : config \in Configs}

\* Two Update calls on the same prior ran at the same time and both
\* returned two files.
ConcurrentUpdatesReturned ==
    /\ ReturnedOnFixedTree(last) /\ ReturnedOnFixedTree(prev)
    /\ last.op = "Update" /\ prev.op = "Update"
    /\ last.overlapped /\ prev.overlapped
    /\ last.prior = prev.prior
    /\ Cardinality(DOMAIN last.ir.Files) = 2
    /\ last.ir = prev.ir

----------------------------------------------------------------------------
(* Files that change while a call reads them *)

\* The entry holds the hash of some content and the lists extracted from
\* the same content.
HashedAsParsed(entry) ==
    \E data \in Sources :
        /\ entry.Hash = HashBytes(data)
        /\ entry = FileIROf(entry.Hash, NewJSParser[data])

\* C25: the hash of an entry is the digest of the bytes its lists were
\* extracted from, also when another process writes the file during the
\* call; a later Update reuses no lists under a hash of other content.
HashIsOfTheBytesParsed ==
    \A n \in {1, 2} :
        Held(n).pc = "done" =>
            \A key \in DOMAIN Held(n).ir.Files : HashedAsParsed(Held(n).ir.Files[key])

\* An Update on a tree that no process wrote during the call returned for
\* a.js the hash of the file's content and the functions of its earlier
\* content: Generate had read the file before the write and hashed it
\* after.
UpdateReusedListsOfOtherContent ==
    /\ ReturnedOnFixedTree(last) /\ last.op = "Update" /\ ~last.err
    /\ last.tree[PathA].data = SrcC
    /\ KeyA \in DOMAIN last.ir.Files
    /\ last.ir.Files[KeyA].Hash = HashBytes(SrcC)
    /\ last.ir.Files[KeyA].Functions = NewJSParser[SrcA].Functions
    /\ NewJSParser[SrcC].Functions # NewJSParser[SrcA].Functions

----------------------------------------------------------------------------
(* Termination of the walk *)

\* The call c has visited no entry twice and has made no I/O operation on
\* a path after one on that path failed.
VisitedOnce(c) ==
    /\ \A path \in DOMAIN c.visits : c.visits[path] = 1
    /\ ~c.retried

\* A walk in progress has a name to visit next, so that the step of the
\* call can be taken.
Ready(c) ==
    c.pc = "walk" =>
        /\ c.stack # <<>>
        /\ c.stack[Len(c.stack)].i <= Len(c.stack[Len(c.stack)].names)

\* C29: every call of Generate or Update returns, after visiting each
\* entry of the tree at most once, a symbolic link to a directory above it
\* and a directory that cannot be read included; no failed operation is
\* tried again.
CallsTerminate ==
    /\ [](VisitedOnce(last) /\ VisitedOnce(prev) /\ Ready(last) /\ Ready(prev))
    /\ Running(last) ~> (last.pc = "done")
    /\ Running(prev) ~> (prev.pc = "done")

\* A call returned after it visited the link to its own root and the
\* directory it could not read.
ReturnedPastLinkAndUnreadable ==
    /\ last.pc = "done" /\ ~last.err
    /\ Str("/w/ln") \in DOMAIN last.visits
    /\ Str("/w/no") \in last.failed
    /\ Str("/w/no/n.js") \notin DOMAIN last.visits
    /\ Str("/w/ln/a.js") \notin DOMAIN last.visits

----------------------------------------------------------------------------
(* Files whose names normalize to the same key *)

\* C26: the result has as many keys as the tree has eligible files that
\* can be read: no two files are recorded under the same key, two files of
\* one directory whose names differ in Unicode form included.
EveryEligibleFileHasItsOwnKey ==
    last.op \in {"Generate", "Update"} /\ ~last.err =>
        Cardinality(DOMAIN last.ir.Files)
            = Cardinality(EligibleFiles(generator, last.tree, last.rootPath))

\* Generate on a directory that holds a file under the decomposed and
\* another under the composed form of the same name returned one entry of
\* the directory, with the hash of the composed one.
GeneratedOneKeyForTwoSiblings ==
    /\ last.op = "Generate" /\ ~last.err
    /\ {AccentFile(AccentNFD, AccentNFD), AccentFile(AccentNFD, AccentNFC)}
           \subseteq EligibleFiles(generator, last.tree, last.rootPath)
    /\ Cardinality(EligibleFiles(generator, last.tree, last.rootPath)) = 4
    /\ Cardinality(DOMAIN last.ir.Files) = 3
    /\ \E key \in DOMAIN last.ir.Files : last.ir.Files[key].Hash = HashBytes(SrcB)
                                            /\ key # Str("lib/e.ts")

----------------------------------------------------------------------------
(* The configuration.  The caller builds a GeneratorConfig, constructs the *)
(* Generator from it, and goes on to change its own list between calls.   *)
(* prev holds the caller's configuration: the list as it was given to     *)
(* NewGenerator, and the list as it is now.                                *)

\* The list of the demonstration program, no list, and a list of one
\* default name.
DemoIgnoredPaths == <<Str("node_modules"), Str("dist"), Str(".git")>>
ConfigInputs == {<<>>, DemoIgnoredPaths, <<Str(".vscode")>>}
ListNames == {Str(".vscode"), Str("dist")}

\* A project with a file of its own and one under each of three default
\* names.
ConfigTree ==
    (<<>> :> Dir("rwx")) @@ (PathW :> Dir("rwx"))
    @@ (PathA :> File("rwx", SrcA))
    @@ (<<Str("w"), Str("dist")>> :> Dir("rwx"))
    @@ (<<Str("w"), Str("dist"), Str("o.js")>> :> File("rwx", SrcB))
    @@ (<<Str("w"), Str(".git")>> :> Dir("rwx")) @@ (PathG :> File("rwx", SrcA))
    @@ (<<Str("w"), Str(".vscode")>> :> Dir("rwx"))
    @@ (<<Str("w"), Str(".vscode"), Str("v.gs")>> :> File("rwx", SrcA))

ConfigInit ==
    /\ fs = ConfigTree
    /\ ops = 0
    /\ \E config \in ConfigInputs :
          /\ generator = NewGenerator(config)
          /\ prev = [op |-> "config", given |-> config, IgnoredPaths |-> config]
    /\ last = NoCall

\* config.IgnoredPaths[i] = name
AssignName(i, name) ==
    /\ i \in 1..Len(prev.IgnoredPaths)
    /\ prev.IgnoredPaths[i] # name
    /\ prev' = [prev EXCEPT !.IgnoredPaths[i] = name]
    /\ UNCHANGED <<fs, ops, generator, last>>

\* config.IgnoredPaths = append(config.IgnoredPaths, name), on the empty
\* list.
AppendName(name) ==
    /\ Len(prev.IgnoredPaths) = 0
    /\ prev' = [prev EXCEPT !.IgnoredPaths = Append(@, name)]
    /\ UNCHANGED <<fs, ops, generator, last>>

\* ir, err := generator.Generate(rootPath)
ConfigGenerate(rootPath) ==
    LET Called(r) ==
            last' = [op |-> "Generate", rootPath |-> rootPath, tree |-> fs, at |-> ops,
                     prior |-> NilIR, chained |-> TRUE, err |-> r.err, ir |-> r.ir,
                     data |-> <<>>]
        Walked(w) == \E iter \in Orders(DOMAIN w.files) : Called(Finish(w, iter))
    IN  /\ Walked(GenerateFiles(generator, fs, rootPath))
        /\ UNCHANGED <<fs, ops, generator, prev>>

\* ir, err := generator.Update(ir, rootPath), with the representation the
\* latest call returned.
ConfigUpdate(rootPath) ==
    LET Called(r) ==
            last' = [op |-> "Update", rootPath |-> rootPath, tree |-> fs, at |-> ops,
                     prior |-> last.ir, chained |-> TRUE, err |-> r.err, ir |-> r.ir,
                     data |-> <<>>]
        Walked(w) == \E iter \in Orders(DOMAIN w.files) : Called(Finish(w, iter))
    IN  /\ last.op # "none"
        /\ ~last.err
        /\ Walked(UpdateFiles(generator, fs, last.ir, rootPath))
        /\ UNCHANGED <<fs, ops, generator, prev>>

ConfigNext ==
    \/ \E i \in 1..3, name \in ListNames : AssignName(i, name)
    \/ \E name \in ListNames : AppendName(name)
    \/ \E rootPath \in RootInputs : ConfigGenerate(rootPath)
    \/ \E rootPath \in RootInputs : ConfigUpdate(rootPath)
    \/ \E w \in WriteInputs : WriteFile(w[1], w[2])

ConfigSpec == ConfigInit /\ [][ConfigNext]_vars

\* The names the list given to NewGenerator asks to ignore: its members, or
\* the five default names when it has none.
GivenNames ==
    IF Len(prev.given) = 0 THEN FiveNames
    ELSE {prev.given[i] : i \in 1..Len(prev.given)}

\* C27: the ignore-set is the list given to NewGenerator, or the five
\* default names when that list is empty; Generate and Update skip exactly
\* the directories of these names, whatever calls were made and however the
\* caller changed its list afterwards.
IgnoreSetIsFixedAtConstruction ==
    /\ generator.ignoredPaths = GivenNames
    /\ last.op \in {"Generate", "Update"} /\ ~last.err =>
          DOMAIN last.ir.Files
              = {KeyOf(last.rootPath, q) :
                    q \in {r \in FilesOutside(GivenNames, last.tree, last.rootPath) :
                              SupportsExtension(Ext(r[Len(r)]))}}

\* The Generator was given the list of the demonstration program; the
\* caller then put .vscode into its list, and Update still recorded the
\* file under .vscode and none under dist.
UpdatedAfterListChanged ==
    /\ prev.given = DemoIgnoredPaths
    /\ prev.IgnoredPaths = <<Str(".vscode"), Str(".vscode"), Str(".git")>>
    /\ last.op = "Update" /\ ~last.err
    /\ DOMAIN last.ir.Files = {KeyA, Str(".vscode/v.gs")}

----------------------------------------------------------------------------
(* What a call leaves of the representation it is given.  One caller runs *)
(* Generate and Update step by step, then serializes or saves what the    *)
(* call returned; existingIR is the prior as Update holds it, prior the   *)
(* prior as it was when the call began, returned the representation as    *)
(* the call returned it and ir the representation the caller holds.       *)

\* The project with its directory .ai.
FrameTree == StepTree @@ (PathAi :> Dir("rwx"))

FrameInit ==
    /\ fs = FrameTree
    /\ ops = 0
    /\ generator \in {NewGenerator(config) : config \in Configs}
    /\ last = Idle
    /\ prev = Idle

\* data, err := ir.MarshalJSON(), on the representation the call returned.
SerializeCall ==
    /\ last.pc = "done" /\ ~last.err /\ last.then = "none"
    /\ \E iter \in Orders(DOMAIN last.ir.Files) :
          last' = [last EXCEPT !.then = "MarshalJSON", !.data = MarshalJSON(last.ir, iter)]
    /\ UNCHANGED <<fs, ops, generator, prev>>

\* err := ir.Save(path), on the representation the call returned.
SaveStep(path) ==
    LET Written(w) ==
            /\ fs' = w.fs
            /\ last' = [last EXCEPT !.then = IF w.err THEN "Save failed" ELSE "Save"]
    IN  /\ last.pc = "done" /\ ~last.err /\ last.then = "none"
        /\ \E iter \in Orders(DOMAIN last.ir.Files) : Written(Save(last.ir, fs, path, iter))
        /\ UNCHANGED <<ops, generator, prev>>

FrameNext ==
    \/ CallStep(1)
    \/ SerializeCall
    \/ \E path \in PersistPaths : SaveStep(path)
    \/ \E w \in StepWrites : WriteFile(w[1], w[2])

FrameSpec == FrameInit /\ [][FrameNext]_vars

\* C28: Update leaves the prior as it was given, at every step of the call
\* and after it; MarshalJSON and Save leave the representation as the call
\* returned it, also when Save fails.
CallsLeaveTheirArgument ==
    /\ last.op = "Update" => last.existingIR = last.prior
    /\ last.then # "none" => last.ir = last.returned

\* An Update that reused an entry of its prior and parsed another returned,
\* and the representation it returned was saved.
UpdatedAndSaved ==
    /\ last.op = "Update" /\ last.pc = "done" /\ last.then = "Save"
    /\ last.prior = StepPrior
    /\ DOMAIN last.ir.Files = {KeyA, Str("lib/e.ts")}
    /\ last.ir.Files[KeyA].Hash = HashBytes(SrcC)
    /\ last.ir.Files[Str("lib/e.ts")] = StepPrior.Files[Str("lib/e.ts")]
    /\ PathIR \in DOMAIN fs

\* Save failed.
SaveFailed == last.then = "Save failed"

----------------------------------------------------------------------------
(* The bytes that Save writes *)

\* C30: the file Save writes holds the bytes MarshalJSON returns for the
\* same representation, indented; a second Save of the representation
\* leaves the file as the first wrote it.
SaveWritesTheSerializedBytes ==
    last.op = "Save" /\ ~last.err =>
        /\ \A iter \in Orders(DOMAIN last.ir.Files) :
              fs[PathIR].data = MarshalJSON(last.ir, iter)
        /\ (prev.op = "Save" /\ ~prev.err) => last.tree[PathIR].data = fs[PathIR].data

\* A second Save of the representation leaves the file as the first wrote
\* it, and the file holds the bytes of json.Marshal.
SaveIsRepeatable ==
    last.op = "Save" /\ ~last.err =>
        /\ \A iter \in Orders(DOMAIN last.ir.Files) : fs[PathIR].data = Marshal(last.ir, iter)
        /\ (prev.op = "Save" /\ ~prev.err) => last.tree[PathIR].data = fs[PathIR].data

\* Save wrote a representation of one file on a single line, while
\* MarshalJSON returns it on several.
SavedOnOneLine ==
    /\ last.op = "Save" /\ ~last.err
    /\ DOMAIN last.ir.Files = {KeyA}
    /\ \A i \in 1..Len(fs[PathIR].data) : fs[PathIR].data[i] # Newline[1]
    /\ \A iter \in Orders(DOMAIN last.ir.Files) :
          /\ fs[PathIR].data # MarshalJSON(last.ir, iter)
          /\ \E i \in 1..Len(MarshalJSON(last.ir, iter)) :
                MarshalJSON(last.ir, iter)[i] = Newline[1]

====
